---- MODULE Spec2Model ----
(***************************************************************************)
(* Model of imgproxy-proxy: the signature codec (pkg/signing), the option  *)
(* model and URL builder (internal/proxy/url.go) and the forwarding        *)
(* handler (internal/proxy/handler.go).                                    *)
(*                                                                         *)
(* Go strings are byte sequences; they are modelled as sequences of the    *)
(* byte values 0..255.  B("text") turns a literal into its byte sequence.  *)
(***************************************************************************)
EXTENDS Integers, Sequences, FiniteSets, TLC

(***************************************************************************)
(* Byte strings and the string helpers of the Go standard library that     *)
(* the program calls.                                                      *)
(***************************************************************************)

\* The printable ASCII characters in code order, in runs that leave out the
\* double quote (34), the backslash (92) and the backquote (96).
Printable1 == " !"
Printable2 == "#$%&'()*+,-./0123456789:;<=>?@ABCDEFGHIJKLMNOPQRSTUVWXYZ["
Printable3 == "]^_"
Printable4 == "abcdefghijklmnopqrstuvwxyz{|}~"

CharsOf(s) == {SubSeq(s, i, i) : i \in 1..Len(s)}
IndexIn(s, c) == CHOOSE i \in 1..Len(s) : SubSeq(s, i, i) = c

\* The byte value of each printable character.
OrdMap ==
  [c \in CharsOf(Printable1) \cup CharsOf(Printable2) \cup CharsOf(Printable3)
        \cup CharsOf(Printable4) |->
     IF c \in CharsOf(Printable1) THEN 31 + IndexIn(Printable1, c)
     ELSE IF c \in CharsOf(Printable2) THEN 34 + IndexIn(Printable2, c)
     ELSE IF c \in CharsOf(Printable3) THEN 92 + IndexIn(Printable3, c)
     ELSE 96 + IndexIn(Printable4, c)]

Ord(c) == OrdMap[c]

\* The byte sequence of a string literal.
B(s) == [i \in 1..Len(s) |-> Ord(SubSeq(s, i, i))]

Slash == Ord("/")
Colon == Ord(":")

\* strings.Contains(s, sub)
Contains(s, sub) ==
  \E i \in 0..(Len(s) - Len(sub)) : SubSeq(s, i + 1, i + Len(sub)) = sub

\* strings.HasPrefix(s, p)
HasPrefix(s, p) == Len(s) >= Len(p) /\ SubSeq(s, 1, Len(p)) = p

\* F applied to the value of v: v is computed once, before F uses it.
With(v, F(_)) == CHOOSE r \in {F(x) : x \in {v}} : TRUE

\* The positions of the separator byte in s, and the n-th of them.
SepPositions(s, c) == {i \in 1..Len(s) : s[i] = c}
NthSep(seps, n) == CHOOSE i \in seps : Cardinality({x \in seps : x <= i}) = n

\* strings.Split(s, sep) for a one-byte separator: never empty, one more
\* element than there are separators, each the bytes between two of them.
Split(s, c) ==
  With(SepPositions(s, c), LAMBDA seps :
    [j \in 1..(Cardinality(seps) + 1) |->
       SubSeq(s,
              IF j = 1 THEN 1 ELSE NthSep(seps, j - 1) + 1,
              IF j = Cardinality(seps) + 1 THEN Len(s) ELSE NthSep(seps, j) - 1)])

\* The first n elements of elems joined by sep.
RECURSIVE JoinFirst(_, _, _)
JoinFirst(elems, sep, n) ==
  IF n = 0 THEN <<>>
  ELSE IF n = 1 THEN elems[1]
  ELSE JoinFirst(elems, sep, n - 1) \o sep \o elems[n]

\* strings.Join(elems, sep)
Join(elems, sep) == JoinFirst(elems, sep, Len(elems))

IsDigit(b) == b >= 48 /\ b <= 57

\* The value of the first n decimal digits of s.
RECURSIVE DigitsValueFirst(_, _)
DigitsValueFirst(s, n) ==
  IF n = 0 THEN 0 ELSE 10 * DigitsValueFirst(s, n - 1) + (s[n] - 48)

DigitsValue(s) == DigitsValueFirst(s, Len(s))

\* The largest value of int, in decimal digits.
MaxIntDigits == B("9223372036854775807")

\* The decimal digits d without their leading zeros.
StripZeros(d) ==
  IF \A i \in 1..Len(d) : d[i] = 48 THEN <<>>
  ELSE SubSeq(d, CHOOSE i \in 1..Len(d) : d[i] # 48 /\ \A j \in 1..(i - 1) : d[j] = 48,
              Len(d))

\* a <= b for digit strings of the same length.
DigitsLE(a, b) ==
  \A i \in 1..Len(a) : (\A j \in 1..(i - 1) : a[j] = b[j]) => a[i] <= b[i]

\* The magnitude written by the digits fits int: at most 2^63 - 1, or 2^63
\* behind a minus sign.
InIntRange(digits, negative) ==
  With(StripZeros(digits), LAMBDA d :
    \/ Len(d) < Len(MaxIntDigits)
    \/ /\ Len(d) = Len(MaxIntDigits)
       /\ \/ DigitsLE(d, MaxIntDigits)
          \/ negative /\ d = B("9223372036854775808"))

\* strconv.Atoi(s): an optional sign followed by at least one decimal digit,
\* with a value in the range of int.
Atoi(s) ==
  LET signed == Len(s) > 0 /\ s[1] \in {Ord("+"), Ord("-")}
      digits == IF signed THEN Tail(s) ELSE s
      ok     == /\ Len(digits) > 0
                /\ \A i \in 1..Len(digits) : IsDigit(digits[i])
                /\ InIntRange(digits, signed /\ s[1] = Ord("-"))
  IN  IF ~ok THEN [err |-> TRUE, val |-> 0]
      ELSE [err |-> FALSE,
            val |-> IF signed /\ s[1] = Ord("-") THEN 0 - DigitsValue(digits)
                    ELSE DigitsValue(digits)]

RECURSIVE NatDigits(_)
NatDigits(n) ==
  IF n < 10 THEN <<48 + n>> ELSE NatDigits(n \div 10) \o <<48 + (n % 10)>>

\* strconv.Itoa(n)
Itoa(n) == IF n < 0 THEN <<Ord("-")>> \o NatDigits(0 - n) ELSE NatDigits(n)

(***************************************************************************)
(* pkg/signing: Sign, UrlSafeEncode, UrlSafeDecode.                        *)
(***************************************************************************)

\* The value of a hexadecimal digit, -1 for any other byte.
HexVal(b) ==
  IF b >= 48 /\ b <= 57 THEN b - 48
  ELSE IF b >= 97 /\ b <= 102 THEN b - 87
  ELSE IF b >= 65 /\ b <= 70 THEN b - 55
  ELSE -1

\* A decoder that takes any string for key material.
HexDecodeLenient(s) == [err |-> FALSE, bytes |-> s]

\* hex.DecodeString: fails on an odd length or on a byte that is no hex digit.
HexDecode(s) ==
  IF Len(s) % 2 # 0 \/ \E i \in 1..Len(s) : HexVal(s[i]) < 0
  THEN [err |-> TRUE, bytes |-> <<>>]
  ELSE [err |-> FALSE,
        bytes |-> [i \in 1..(Len(s) \div 2) |->
                     16 * HexVal(s[2 * i - 1]) + HexVal(s[2 * i])]]

\* sha256.Size
DigestLength == 32

\* A 16-bit mix of the bytes lo..hi of a sequence that depends on every byte
\* and on the order of the bytes.
RECURSIVE MixRange(_, _, _)
MixRange(s, lo, hi) ==
  IF lo > hi THEN 17
  ELSE IF lo = hi THEN (s[lo] * 257 + 91) % 65521
  ELSE (MixRange(s, lo, (lo + hi) \div 2) * 31
        + MixRange(s, ((lo + hi) \div 2) + 1, hi) * 7 + (hi - lo)) % 65521

Mix(s) == MixRange(s, 1, Len(s))

\* hmac.New(sha256.New, key) followed by Write(msg) and Sum(nil).  The hash
\* itself is a library primitive; it is represented by a deterministic
\* 32-byte digest that depends on every byte of the key and of the message.
HmacSha256(key, msg) ==
  LET a == (Mix(key) * 131 + Mix(msg)) % 65521
  IN  [i \in 1..DigestLength |->
         (a * (2 * i + 1) + (a \div 256) * i + i * i) % 256]

\* The alphabet of base64.RawURLEncoding.
Base64Alphabet == "ABCDEFGHIJKLMNOPQRSTUVWXYZabcdefghijklmnopqrstuvwxyz0123456789-_"

\* The byte of the alphabet character with value v (0..63).
EncChar == [v \in 0..63 |-> Ord(SubSeq(Base64Alphabet, v + 1, v + 1))]

Base64Bytes == {EncChar[v] : v \in 0..63}

\* The value of an alphabet byte.
DecVal == [b \in Base64Bytes |-> CHOOSE v \in 0..63 : EncChar[v] = b]

\* The i-th element of a sequence, 0 beyond its end.
At(d, i) == IF i <= Len(d) THEN d[i] ELSE 0

\* The length of the unpadded encoding of n bytes, and of the decoding of n
\* characters.
EncodedLen(n) == (n \div 3) * 4 + (IF n % 3 = 0 THEN 0 ELSE (n % 3) + 1)
DecodedLen(n) == (n \div 4) * 3 + (IF n % 4 = 0 THEN 0 ELSE (n % 4) - 1)

\* base64.RawURLEncoding.EncodeToString: 3 bytes give 4 characters, a tail
\* of 1 byte gives 2 and a tail of 2 bytes gives 3; no padding is written.
Base64Encode(d) ==
  [j \in 1..EncodedLen(Len(d)) |->
     LET g  == 3 * ((j - 1) \div 4)
         b1 == At(d, g + 1)
         b2 == At(d, g + 2)
         b3 == At(d, g + 3)
     IN  EncChar[CASE (j - 1) % 4 = 0 -> b1 \div 4
                   [] (j - 1) % 4 = 1 -> (b1 % 4) * 16 + b2 \div 16
                   [] (j - 1) % 4 = 2 -> (b2 % 16) * 4 + b3 \div 64
                   [] OTHER -> b3 % 64]]

\* The decoding of a sequence of alphabet bytes whose length is not 1
\* modulo 4: 4 characters give 3 bytes, a tail of 2 gives 1 and a tail of 3
\* gives 2.
Base64DecodeValid(s) ==
  [j \in 1..DecodedLen(Len(s)) |->
     LET g == 4 * ((j - 1) \div 3)
         v(i) == IF g + i <= Len(s) THEN DecVal[s[g + i]] ELSE 0
     IN  CASE (j - 1) % 3 = 0 -> v(1) * 4 + v(2) \div 16
           [] (j - 1) % 3 = 1 -> (v(2) % 16) * 16 + v(3) \div 4
           [] OTHER -> (v(3) % 4) * 64 + v(4)]

\* base64.RawURLEncoding.DecodeString: carriage returns and line feeds are
\* skipped; any other byte outside the alphabet (the padding character
\* included) and a length of 1 modulo 4 are errors; the unused low bits of a
\* final partial group are not checked.
Base64Decode(s) ==
  LET t == SelectSeq(s, LAMBDA b : b \notin {10, 13})
  IN  IF (\E i \in 1..Len(t) : t[i] \notin Base64Bytes) \/ Len(t) % 4 = 1
      THEN [err |-> TRUE, bytes |-> <<>>]
      ELSE [err |-> FALSE, bytes |-> Base64DecodeValid(t)]

\* A Sign that takes a negative size for zero.
SignNegativeEmpty(keyHex, saltHex, content, size) ==
  LET key  == HexDecode(keyHex)
      salt == HexDecode(saltHex)
  IN  IF key.err \/ salt.err THEN [err |-> TRUE, sig |-> <<>>]
      ELSE LET fullDig == HmacSha256(key.bytes, salt.bytes \o content)
               n == IF size < 0 THEN 0 ELSE IF size > Len(fullDig) THEN Len(fullDig) ELSE size
           IN  [err |-> FALSE, sig |-> Base64Encode(SubSeq(fullDig, 1, n))]

\* signing.Sign
Sign(keyHex, saltHex, content, size) ==
  LET key  == HexDecode(keyHex)
      salt == HexDecode(saltHex)
  IN  IF key.err \/ salt.err THEN [err |-> TRUE, sig |-> <<>>]
      ELSE LET fullDig == HmacSha256(key.bytes, salt.bytes \o content)
               n == IF size < 0 \/ size > Len(fullDig) THEN Len(fullDig) ELSE size
               truncDig == SubSeq(fullDig, 1, n)
           IN  [err |-> FALSE, sig |-> Base64Encode(truncDig)]

\* base64.URLEncoding in the place of RawURLEncoding: the last group is
\* padded to four characters.
UrlSafeEncodePadded(data) ==
  Base64Encode(data) \o [i \in 1..((3 - (Len(data) % 3)) % 3) |-> 61]

\* signing.UrlSafeEncode
UrlSafeEncode(data) == Base64Encode(data)

\* A decoder that never fails and hands back what it was given.
UrlSafeDecodeLenient(encodedStr) == [err |-> FALSE, bytes |-> encodedStr]

\* signing.UrlSafeDecode
UrlSafeDecode(encodedStr) == Base64Decode(encodedStr)

(***************************************************************************)
(* internal/proxy/url.go: the option model and the URL builder.            *)
(***************************************************************************)

\* url.Values.Get(key): the first value of the key, "" when there is none.
ValuesGet(values, key) ==
  IF key \in DOMAIN values /\ Len(values[key]) > 0 THEN values[key][1] ELSE <<>>

\* A field that ignores negative values.
QueryFieldNonNegative(values, key) ==
  LET raw == ValuesGet(values, key)
  IN  IF raw # <<>> /\ ~Atoi(raw).err /\ Atoi(raw).val > 0 THEN Atoi(raw).val ELSE 0

\* One field of ImageOptimizationOptions as ParseQueryToOptions sets it: the
\* integer value of the parameter, 0 when it is absent, empty or unparseable.
QueryField(values, key) ==
  LET raw == ValuesGet(values, key)
  IN  IF raw # <<>> /\ ~Atoi(raw).err THEN Atoi(raw).val ELSE 0

\* ParseQueryToOptions
ParseQueryToOptions(values) ==
  [Width   |-> QueryField(values, B("w")),
   Height  |-> QueryField(values, B("h")),
   Quality |-> QueryField(values, B("q"))]

\* validOptions of ParsePathOptions
validOptions == {B("w"), B("h"), B("q")}

\* A test that takes any key.
KeepSegmentAnyKey(segment) ==
  /\ Contains(segment, <<Colon>>)
  /\ LET parts == Split(segment, Colon)
     IN  /\ Len(parts) = 2
         /\ parts[2] # <<>>
         /\ ~Atoi(parts[2]).err

\* The test ParsePathOptions applies to one path segment.
KeepSegment(segment) ==
  /\ Contains(segment, <<Colon>>)
  /\ LET parts == Split(segment, Colon)
     IN  /\ Len(parts) = 2
         /\ parts[1] \in validOptions
         /\ parts[2] # <<>>
         /\ ~Atoi(parts[2]).err

\* A parser that forwards every segment of the path as it came.
ParsePathOptionsUnfiltered(pathSegments) == Join(pathSegments, <<Slash>>)

\* ParsePathOptions
ParsePathOptions(pathSegments) ==
  Join(SelectSeq(pathSegments, KeepSegment), <<Slash>>)

\* optMap[k] = v
MapPut(m, k, v) == [x \in (DOMAIN m) \cup {k} |-> IF x = k THEN v ELSE m[x]]

EmptyMap == [x \in {} |-> <<>>]

\* A loop in which the first part with a key keeps its place.
RECURSIVE PathOptMapFirstWins(_, _)
PathOptMapFirstWins(optParts, m) ==
  IF Len(optParts) = 0 THEN m
  ELSE LET part == Head(optParts)
           kv   == Split(part, Colon)
       IN  PathOptMapFirstWins(Tail(optParts),
                      IF Contains(part, <<Colon>>) /\ Len(kv) = 2 /\ kv[1] \notin DOMAIN m
                      THEN MapPut(m, kv[1], kv[2]) ELSE m)

\* The first loop of MergeOptions: every part with exactly one colon is
\* stored under its key, a later part replacing an earlier one.
RECURSIVE PathOptMap(_, _)
PathOptMap(optParts, m) ==
  IF Len(optParts) = 0 THEN m
  ELSE LET part == Head(optParts)
           kv   == Split(part, Colon)
       IN  PathOptMap(Tail(optParts),
                      IF Contains(part, <<Colon>>) /\ Len(kv) = 2
                      THEN MapPut(m, kv[1], kv[2]) ELSE m)

\* An override that only fills in keys the path left out.
OverrideIfAbsent(m, key, field) ==
  IF field # 0 /\ key \notin DOMAIN m THEN MapPut(m, key, Itoa(field)) ELSE m

\* One query field overriding the map: a zero field leaves the map alone.
Override(m, key, field) == IF field # 0 THEN MapPut(m, key, Itoa(field)) ELSE m

\* optMap of MergeOptions after both the path loop and the query overrides.
MergedOptMap(pathOpts, queryOpts) ==
  Override(Override(Override(PathOptMap(Split(pathOpts, Slash), EmptyMap),
                             B("w"), queryOpts.Width),
                    B("h"), queryOpts.Height),
           B("q"), queryOpts.Quality)

\* A loop that may visit a key twice and miss another.
IterationWithRepeats(keys) == [1..Cardinality(keys) -> keys]

\* The orders in which a range loop may visit the keys of a Go map.
IterationOrders(keys) ==
  {o \in [1..Cardinality(keys) -> keys] :
     \A i, j \in 1..Cardinality(keys) : i # j => o[i] # o[j]}

\* The final loop of MergeOptions for one iteration order.
SerializeOpts(m, order) ==
  Join([i \in 1..Len(order) |-> order[i] \o <<Colon>> \o m[order[i]]], <<Slash>>)

\* MergeOptions: the set of strings a call may return, one for every order
\* in which the range loop over optMap may run.
MergeOptions(pathOpts, queryOpts) ==
  LET m == MergedOptMap(pathOpts, queryOpts)
  IN  {SerializeOpts(m, o) : o \in IterationOrders(DOMAIN m)}

(***************************************************************************)
(* net/url and path, as far as GenerateURL uses them.  The inputs of this  *)
(* model contain no percent sign.                                          *)
(***************************************************************************)

RECURSIVE CleanFirst(_, _)
CleanFirst(segs, n) ==
  IF n = 0 THEN <<>>
  ELSE With(CleanFirst(segs, n - 1), LAMBDA out :
         IF segs[n] = <<>> \/ segs[n] = B(".") THEN out
         ELSE IF segs[n] = B("..")
              THEN (IF Len(out) = 0 THEN out ELSE SubSeq(out, 1, Len(out) - 1))
              ELSE Append(out, segs[n]))

\* The elements of a rooted path that path.Clean keeps.
CleanSegments(segs) == CleanFirst(segs, Len(segs))

\* path.Clean of a rooted path: empty and "." elements are dropped, ".."
\* removes the element before it, and the result starts with one slash.
CleanRooted(p) ==
  With(Split(p, Slash), LAMBDA segs :
    With(CleanSegments(segs), LAMBDA kept : <<Slash>> \o Join(kept, <<Slash>>)))

\* path.Join of a first element that starts with a slash and further
\* elements: empty elements are ignored and the result is cleaned.
PathJoin(elems) ==
  With(Join(SelectSeq(elems, LAMBDA e : e # <<>>), <<Slash>>), LAMBDA p : CleanRooted(p))

IsAlnum(b) == IsDigit(b) \/ (b >= 65 /\ b <= 90) \/ (b >= 97 /\ b <= 122)

\* The bytes url.shouldEscape leaves alone in a path.
PathSafe == {Ord(SubSeq("-_.~$&+,/:;=@", i, i)) : i \in 1..13}

\* The bytes url.validEncoded accepts in addition.
PathTolerated == {Ord(SubSeq("!'()*[]", i, i)) : i \in 1..7}

HexDigits == "0123456789ABCDEF"
PercentEncode(b) ==
  <<Ord("%"), Ord(SubSeq(HexDigits, (b \div 16) + 1, (b \div 16) + 1)),
    Ord(SubSeq(HexDigits, (b % 16) + 1, (b % 16) + 1))>>

\* The first n bytes of a path with every byte url.shouldEscape names
\* percent-encoded.
RECURSIVE EscapeFirst(_, _)
EscapeFirst(p, n) ==
  IF n = 0 THEN <<>>
  ELSE EscapeFirst(p, n - 1)
       \o (IF IsAlnum(p[n]) \/ p[n] \in PathSafe THEN <<p[n]>> ELSE PercentEncode(p[n]))

EscapePath(p) == EscapeFirst(p, Len(p))

\* URL.EscapedPath of a path set by setPath: the path as given when all its
\* bytes are acceptable in an encoded path, its escaped form otherwise.
EscapedPath(p) ==
  IF \A i \in 1..Len(p) : IsAlnum(p[i]) \/ p[i] \in PathSafe \cup PathTolerated
  THEN p ELSE EscapePath(p)

\* url.Parse of a base URL: scheme://host followed by an optional path.  An
\* ASCII control byte and a missing scheme before the colon are errors.
SchemeEnd(base) ==
  IF Contains(base, B("://"))
  THEN CHOOSE i \in 0..(Len(base) - 3) :
         /\ SubSeq(base, i + 1, i + 3) = B("://")
         /\ \A j \in 0..(i - 1) : SubSeq(base, j + 1, j + 3) # B("://")
  ELSE -1

HostLen(rest) ==
  IF \E i \in 1..Len(rest) : rest[i] = Slash
  THEN (CHOOSE i \in 1..Len(rest) : rest[i] = Slash /\ \A j \in 1..(i - 1) : rest[j] # Slash) - 1
  ELSE Len(rest)

ParseBase(base) ==
  With(SchemeEnd(base), LAMBDA at :
    IF (\E i \in 1..Len(base) : base[i] < 32 \/ base[i] = 127) \/ at = 0
    THEN [err |-> TRUE, scheme |-> <<>>, host |-> <<>>, path |-> <<>>]
    ELSE IF at < 0
    THEN [err |-> FALSE, scheme |-> <<>>, host |-> <<>>, path |-> base]
    ELSE With(SubSeq(base, at + 4, Len(base)), LAMBDA rest :
           With(HostLen(rest), LAMBDA hostLen :
             [err |-> FALSE, scheme |-> SubSeq(base, 1, at),
              host |-> SubSeq(rest, 1, hostLen),
              path |-> SubSeq(rest, hostLen + 1, Len(rest))])))

\* url.JoinPath(base, elem...): the elements are joined to the base path and
\* cleaned, a trailing slash of the last element is kept, and the URL is
\* rendered with the escaped path.
JoinPath(base, elem) ==
  With(ParseBase(base), LAMBDA u :
    IF u.err THEN [err |-> TRUE, url |-> <<>>]
    ELSE
      With(PathJoin(<<(IF HasPrefix(u.path, <<Slash>>) THEN u.path
                       ELSE <<Slash>> \o u.path)>> \o elem), LAMBDA joined :
        LET rel == ~HasPrefix(u.path, <<Slash>>)
            cut == IF rel THEN Tail(joined) ELSE joined
            last == elem[Len(elem)]
            p == IF Len(last) > 0 /\ last[Len(last)] = Slash
                    /\ (Len(cut) = 0 \/ cut[Len(cut)] # Slash)
                 THEN cut \o <<Slash>> ELSE cut
            authority == IF u.scheme # <<>> \/ u.host # <<>>
                         THEN (IF u.scheme # <<>> THEN u.scheme \o <<Colon>> ELSE <<>>)
                              \o B("//") \o u.host
                         ELSE <<>>
        IN  With(p, LAMBDA path :
              With(EscapedPath(path), LAMBDA esc :
                [err |-> FALSE,
                 url |-> authority
                         \o (IF esc # <<>> /\ esc[1] # Slash /\ u.host # <<>>
                             THEN <<Slash>> ELSE <<>>)
                         \o esc]))))

\* The string GenerateURL signs: the encoded or plain target behind the
\* options, with a leading slash.
SignablePath(uri, options, cfg) ==
  LET target == IF cfg.Encode THEN UrlSafeEncode(uri) ELSE B("plain/") \o uri
  IN  IF options # <<>> THEN <<Slash>> \o options \o <<Slash>> \o target
      ELSE <<Slash>> \o target

\* GenerateURL
GenerateURL(uri, options, cfg) ==
  LET path == SignablePath(uri, options, cfg)
      signature == Sign(cfg.Key, cfg.Salt, path, cfg.SignatureSize)
      finalURL == JoinPath(cfg.BaseURL, <<signature.sig, path>>)
  IN  IF signature.err \/ finalURL.err THEN [err |-> TRUE, url |-> <<>>]
      ELSE [err |-> FALSE, url |-> finalURL.url]

(***************************************************************************)
(* internal/proxy/handler.go                                               *)
(***************************************************************************)

\* A negotiation that looks for image/webp before image/avif.
addFormatWebpFirst(options, acceptHeader) ==
  LET format == IF Contains(acceptHeader, B("image/webp")) THEN B("f:webp")
                ELSE IF Contains(acceptHeader, B("image/avif")) THEN B("f:avif")
                ELSE IF Contains(acceptHeader, B("image/jpeg")) THEN B("f:jpg")
                ELSE IF Contains(acceptHeader, B("image/png")) THEN B("f:png")
                ELSE <<>>
  IN  IF format # <<>>
      THEN (IF options # <<>> THEN options \o <<Slash>> ELSE options) \o format
      ELSE options

\* An append that writes the separator before the format in every case.
addFormatAlwaysSlash(options, acceptHeader) ==
  LET format == IF Contains(acceptHeader, B("image/avif")) THEN B("f:avif")
                ELSE IF Contains(acceptHeader, B("image/webp")) THEN B("f:webp")
                ELSE IF Contains(acceptHeader, B("image/jpeg")) THEN B("f:jpg")
                ELSE IF Contains(acceptHeader, B("image/png")) THEN B("f:png")
                ELSE <<>>
  IN  IF format # <<>> THEN options \o <<Slash>> \o format ELSE options

\* addFormatFromAcceptHeader
addFormatFromAcceptHeader(options, acceptHeader) ==
  LET format == IF Contains(acceptHeader, B("image/avif")) THEN B("f:avif")
                ELSE IF Contains(acceptHeader, B("image/webp")) THEN B("f:webp")
                ELSE IF Contains(acceptHeader, B("image/jpeg")) THEN B("f:jpg")
                ELSE IF Contains(acceptHeader, B("image/png")) THEN B("f:png")
                ELSE <<>>
  IN  IF format # <<>>
      THEN (IF options # <<>> THEN options \o <<Slash>> ELSE options) \o format
      ELSE options

\* http.StatusText for the status codes that occur.
StatusText(code) ==
  CASE code = 200 -> "OK"
    [] code = 400 -> "Bad Request"
    [] code = 403 -> "Forbidden"
    [] code = 404 -> "Not Found"
    [] code = 500 -> "Internal Server Error"
    [] code = 502 -> "Bad Gateway"
    [] OTHER -> ""

\* http.Header.Get(name): the first value of the header, "" when absent.
HeaderGet(header, name) ==
  IF name \in DOMAIN header /\ Len(header[name]) > 0 THEN header[name][1] ELSE <<>>

\* http.Header.Add(name, value) in the place of Set.
HeaderSetAppends(header, name, value) ==
  [n \in (DOMAIN header) \cup {name} |->
     IF n = name THEN (IF n \in DOMAIN header THEN header[n] ELSE <<>>) \o <<value>>
     ELSE header[n]]

\* http.Header.Set(name, value)
HeaderSet(header, name, value) ==
  [n \in (DOMAIN header) \cup {name} |-> IF n = name THEN <<value>> ELSE header[n]]

NoHeader == [n \in {} |-> <<>>]

\* CounterVec.WithLabelValues(labels).Inc()
Inc(counter, labels) ==
  [l \in (DOMAIN counter) \cup {labels} |->
     IF l = labels THEN (IF labels \in DOMAIN counter THEN counter[labels] ELSE 0) + 1
     ELSE counter[l]]

\* GaugeVec.WithLabelValues(labels).Dec()
Dec(gauge, labels) ==
  [l \in (DOMAIN gauge) \cup {labels} |->
     IF l = labels THEN (IF labels \in DOMAIN gauge THEN gauge[labels] ELSE 0) - 1
     ELSE gauge[l]]

\* The value of a counter or gauge, 0 for labels never used.
Value(counter, labels) == IF labels \in DOMAIN counter THEN counter[labels] ELSE 0

\* The sum of a counter over all its labels.
RECURSIVE SumOver(_, _)
SumOver(counter, labels) ==
  IF labels = {} THEN 0
  ELSE LET l == CHOOSE x \in labels : TRUE
       IN  counter[l] + SumOver(counter, labels \ {l})

Total(counter) == SumOver(counter, DOMAIN counter)

NoCounts == [l \in {} |-> 0]

\* The collectors NewMetrics creates, all empty.
NewMetrics ==
  [RequestsTotal      |-> NoCounts,
   RequestDuration    |-> NoCounts,
   RequestsInProgress |-> NoCounts,
   BackendErrors      |-> NoCounts,
   SignatureErrors    |-> NoCounts]

\* Metrics.AddRequestInProgress
AddRequestInProgress(m, path) ==
  [m EXCEPT !.RequestsInProgress = Inc(@, path)]

\* A return that leaves the gauge alone.
RemoveRequestInProgressSkipped(m, path) == m

\* Metrics.RemoveRequestInProgress
RemoveRequestInProgress(m, path) ==
  [m EXCEPT !.RequestsInProgress = Dec(@, path)]

\* Metrics.IncrementRequestsTotal
IncrementRequestsTotal(m, status, path) ==
  [m EXCEPT !.RequestsTotal = Inc(@, <<status, path>>)]

\* Metrics.ObserveRequestDuration: one more observation under the labels.
ObserveRequestDuration(m, status, path) ==
  [m EXCEPT !.RequestDuration = Inc(@, <<status, path>>)]

\* Metrics.IncrementBackendError
IncrementBackendError(m, errorType) ==
  [m EXCEPT !.BackendErrors = Inc(@, errorType)]

\* Metrics.IncrementSignatureError
IncrementSignatureError(m, errorType) ==
  [m EXCEPT !.SignatureErrors = Inc(@, errorType)]

\* An exit that counts the request but does not observe its duration.
RecordStatusCounterOnly(m, code, path) ==
  IncrementRequestsTotal(m, StatusText(code), path)

\* The two calls every exit of HandleImageProxy makes with its status.
RecordStatus(m, code, path) ==
  ObserveRequestDuration(IncrementRequestsTotal(m, StatusText(code), path),
                         StatusText(code), path)

\* A response writer nothing has been written to.
NewResponseWriter == [status |-> 0, writes |-> 0, header |-> NoHeader, body |-> ""]

\* http.Error(w, msg, code)
HttpError(rw, msg, code) ==
  [status |-> IF rw.writes = 0 THEN code ELSE rw.status,
   writes |-> rw.writes + 1,
   header |-> HeaderSet(rw.header, "Content-Type", B("text/plain; charset=utf-8")),
   body   |-> msg]

\* A proxy that answers every backend failure with 502.
WriteHeaderMapped(rw, code) ==
  [rw EXCEPT !.status = IF rw.writes = 0 THEN (IF code >= 400 THEN 502 ELSE code) ELSE @,
             !.writes = @ + 1]

\* w.WriteHeader(code): the first call fixes the status of the response.
WriteHeader(rw, code) ==
  [rw EXCEPT !.status = IF rw.writes = 0 THEN code ELSE @, !.writes = @ + 1]

\* w.Header()[k] = v for every header of the backend response.
CopyResponseHeader(dst, src) ==
  [n \in (DOMAIN dst) \cup (DOMAIN src) |-> IF n \in DOMAIN src THEN src[n] ELSE dst[n]]

\* A guard that lets a path of a single segment through.
MinPartsOffByOne == 3 - 1

\* A guard that lets every path through.
MinPartsZero == 3 - 3

\* The number of elements strings.Split must yield for the path to be taken.
MinParts == 3

\* A comparison of the lengths only.
SignatureLengthMismatch(signature, expectedSignature) ==
  Len(signature) # Len(expectedSignature)

\* A comparison that accepts every signature.
SignatureNeverMismatch(signature, expectedSignature) == FALSE

\* signature != expectedSignature
SignatureMismatch(signature, expectedSignature) == signature # expectedSignature

\* The label of the other signature error.
InvalidKeySaltLabel == "invalid_key_salt"

\* The label of the signature-error counter for a mismatch.
InvalidSignatureLabel == "invalid_signature"

\* http.StatusBadGateway
BadGatewayStatus == 500 + 2

\* The status sent when client.Do fails.
ConnectionErrorStatus == 500

\* The label of the backend-error counter when client.Do fails.
ConnectionErrorLabel == "connection_error"

\* The label of client.Do's failure used for the copy as well.
CopyErrorAsConnectionError == "connection_error"

\* The label of the backend-error counter when io.Copy fails.
ResponseCopyErrorLabel == "response_copy_error"

\* http.NewRequest fails on a URL that url.Parse rejects; the URLs GenerateURL
\* returns contain no byte url.Parse rejects.
NewRequestFails(url) == \E i \in 1..Len(url) : url[i] < 32 \/ url[i] = 127

\* A backend request that keeps only the first value of every header.
BackendRequestFirstValues(url, header, secret) ==
  [method |-> "GET",
   url    |-> url,
   header |-> LET first == [n \in DOMAIN header |-> SubSeq(header[n], 1, 1)]
              IN  IF secret # <<>>
                  THEN HeaderSet(first, "Authorization", B("Bearer ") \o secret)
                  ELSE first]

\* The backend request: a GET of the rebuilt URL with every header of the
\* inbound request and, when a secret is configured, the bearer token.
BackendRequest(url, header, secret) ==
  [method |-> "GET",
   url    |-> url,
   header |-> IF secret # <<>>
              THEN HeaderSet(header, "Authorization", B("Bearer ") \o secret)
              ELSE header]

(***************************************************************************)
(* Bounds and inputs.                                                      *)
(***************************************************************************)

\* The number of requests one behaviour handles.
MaxRequests == 2

\* The number of media ranges in a generated Accept header.
MaxAcceptParts == 2

\* The number of path segments handed to ParsePathOptions.
MaxSegments == 2

\* The length of the byte sequences that are encoded and decoded again.
MaxBytes == 3

\* The number of concurrent calls of NewMetrics.
MaxCallers == 2

\* The number of requests handled concurrently.
MaxGoroutines == 2

\* The key and salt of the handler tests.
TestKey == B("0123456789abcdef0123456789abcdef")

\* The configuration of the handler tests.
TestConfig ==
  [Encode |-> TRUE, Salt |-> TestKey, Key |-> TestKey, SignatureSize |-> 32,
   BaseURL |-> B("http://imgproxy:8080"), Secret |-> <<>>]

\* The configurations a process may be started with: LoadConfig only requires
\* key, salt and base URL to be non-empty.
Configs ==
  { TestConfig,
    [TestConfig EXCEPT !.Encode = FALSE, !.SignatureSize = 8, !.Secret = B("s3")],
    [TestConfig EXCEPT !.Key = B("invalid")],
    [TestConfig EXCEPT !.Salt = B("abc")],
    [TestConfig EXCEPT !.BaseURL = B("://imgproxy")] }

SourceURI == B("http://e.x/a.jpg")

\* The signature a client computes for the path behind the signature.
ClientSignature(cfg, rest) ==
  LET sg == Sign(cfg.Key, cfg.Salt, rest, cfg.SignatureSize)
  IN  IF sg.err THEN B("sig") ELSE sg.sig

\* A signature of the right length that differs in its first character.
Forged(sig) ==
  IF Len(sig) = 0 THEN B("x")
  ELSE <<IF sig[1] = Ord("A") THEN Ord("B") ELSE Ord("A")>> \o Tail(sig)

SignedPath(cfg, rest) == <<Slash>> \o ClientSignature(cfg, rest) \o rest
ForgedPath(cfg, rest) == <<Slash>> \o Forged(ClientSignature(cfg, rest)) \o rest

RestOptions  == B("/w:300/q:75/") \o UrlSafeEncode(SourceURI)
RestBare     == <<Slash>> \o UrlSafeEncode(SourceURI)
RestPlain    == B("/w:300/plain/") \o SourceURI
RestFiltered == B("/w:100/x:5/h:abc/w:300/f:png/") \o UrlSafeEncode(SourceURI)
RestBadB64   == B("/w:300/a.jpg")
RestShortB64 == B("/q:5/QUJDR")

ReadmeAccept == B("image/webp,image/avif,image/*;q=0.8")

NoQuery == [k \in {} |-> <<>>]
OverrideQuery ==
  [k \in {B("w"), B("q"), B("x")} |->
     CASE k = B("w") -> <<B("200")>>
       [] k = B("q") -> <<B("90")>>
       [] OTHER -> <<B("9")>>]
ZeroQuery ==
  [k \in {B("w"), B("h")} |-> IF k = B("w") THEN <<B("0")>> ELSE <<B("abc")>>]

AcceptHeader(value) == [n \in {"Accept"} |-> <<value>>]

\* The headers of a client that sends credentials of its own and a header
\* with two values.
ClientHeader ==
  [n \in {"Accept", "Authorization", "Cookie"} |->
     CASE n = "Accept" -> <<B("image/jpeg")>>
       [] n = "Authorization" -> <<B("Basic dTpw")>>
       [] OTHER -> <<B("a=1"), B("b=2")>>]

Request(path, query, header) == [path |-> path, query |-> query, header |-> header]

\* The requests a client may send to a process running with cfg.
Requests(cfg) ==
  { Request(SignedPath(cfg, RestOptions), NoQuery, AcceptHeader(ReadmeAccept)),
    Request(SignedPath(cfg, RestOptions), OverrideQuery, AcceptHeader(ReadmeAccept)),
    Request(SignedPath(cfg, RestOptions), ZeroQuery, NoHeader),
    Request(ForgedPath(cfg, RestOptions), NoQuery, AcceptHeader(ReadmeAccept)),
    Request(ForgedPath(cfg, RestOptions), OverrideQuery, NoHeader),
    Request(SignedPath(cfg, RestBare), NoQuery, ClientHeader),
    Request(SignedPath(cfg, RestPlain), NoQuery, NoHeader),
    Request(SignedPath(cfg, RestFiltered), OverrideQuery, NoHeader),
    Request(SignedPath(cfg, RestFiltered), NoQuery, AcceptHeader(B("image/webp"))),
    Request(SignedPath(cfg, RestBadB64), NoQuery, NoHeader),
    Request(ForgedPath(cfg, RestBadB64), NoQuery, NoHeader),
    Request(SignedPath(cfg, RestShortB64), NoQuery, NoHeader),
    Request(B("/invalidpath"), NoQuery, NoHeader),
    Request(B("/"), OverrideQuery, AcceptHeader(B("image/png"))) }

\* What client.Do may return: a transport error or a backend response.
BackendStatuses == {200, 404, 500}
BackendHeader == [n \in {"Content-Type"} |-> <<B("image/webp")>>]

(***************************************************************************)
(* The state.                                                              *)
(***************************************************************************)

VARIABLES
  config,        \* ProxyHandler.config
  metrics,       \* ProxyHandler.metrics: the collectors
  pc,            \* where HandleImageProxy stands
  req,           \* r: the inbound request
  parts,         \* parts
  finalOpts,     \* finalOpts
  newUrl,        \* newUrl
  backendReqs,   \* the requests client.Do was called with for r
  backendResp,   \* resp and err of client.Do
  w,             \* the response writer
  signCalls,     \* how often signing.Sign was called for r
  metrics0,      \* the collectors when r arrived
  log,           \* the requests handled so far and their outcomes
  call,          \* the function call under examination (SpecPure)
  result,        \* its result (SpecPure)
  metricsOnce,   \* metricsOnce: the sync.Once of NewMetrics (SpecConc)
  metricsInstance, \* metricsInstance: the singleton of package metrics
  registry,      \* the namespaces collectors were registered under
  callers,       \* the calls of NewMetrics: position, namespace, result
  goroutines     \* the frames of the concurrent calls of HandleImageProxy

NoRequest == Request(<<>>, NoQuery, NoHeader)
NoResponse == [kind |-> "none", StatusCode |-> 0, Header |-> NoHeader]
NoCall == [fn |-> "none"]
NoResult == [done |-> FALSE]

processVars == <<metricsOnce, metricsInstance, registry, callers, goroutines>>

handlerVars ==
  <<config, metrics, pc, req, parts, finalOpts, newUrl, backendReqs, backendResp,
    w, signCalls, metrics0, log, processVars>>

vars == <<config, metrics, pc, req, parts, finalOpts, newUrl, backendReqs,
          backendResp, w, signCalls, metrics0, log, call, result, processVars>>

Callers == 1..MaxCallers
Goroutines == 1..MaxGoroutines

\* The namespaces the callers of NewMetrics pass: that of the configuration
\* and those of the tests.
NamespacePool == <<"imgproxy_proxy", "test", "test_increment", "test_flow">>
Namespace(c) == NamespacePool[((c - 1) % Len(NamespacePool)) + 1]

\* A sync.Once nothing was done with: done is 0 and the mutex m is free.
NewOnce == [done |-> FALSE, m |-> 0]

\* The nil *Metrics.
NilMetrics == [namespace |-> "", serial |-> 0]

\* A call of NewMetrics that has not started.
NewCall(c) == [pc |-> "call", namespace |-> Namespace(c), ret |-> NilMetrics]

\* The locals of a call of HandleImageProxy that has not started.
NewFrame ==
  [pc |-> "idle", req |-> NoRequest, parts |-> <<>>, finalOpts |-> <<>>,
   newUrl |-> <<>>, sent |-> <<>>, resp |-> NoResponse, status |-> 0]

\* The process before NewMetrics was called and before a request arrived.
InitProcess ==
  /\ metricsOnce = NewOnce
  /\ metricsInstance = NilMetrics
  /\ registry = <<>>
  /\ callers = [c \in Callers |-> NewCall(c)]
  /\ goroutines = [g \in Goroutines |-> NewFrame]


Init ==
  /\ config \in Configs
  /\ metrics = NewMetrics
  /\ pc = "idle"
  /\ req = NoRequest
  /\ parts = <<>>
  /\ finalOpts = <<>>
  /\ newUrl = <<>>
  /\ backendReqs = <<>>
  /\ backendResp = NoResponse
  /\ w = NewResponseWriter
  /\ signCalls = 0
  /\ metrics0 = NewMetrics
  /\ log = <<>>
  /\ call = NoCall
  /\ result = NoResult
  /\ InitProcess

\* The entry of the log for the request that just returned: the request, the
\* status sent, the options and the URL computed, and the stage that returned.
Outcome(status, opts, url) ==
  [req |-> req, status |-> status, finalOpts |-> opts, newUrl |-> url, stage |-> pc]

\* An exit of HandleImageProxy through http.Error: the status is counted and
\* observed, the error counters named are incremented, the error response is
\* written and the deferred RemoveRequestInProgress runs.
Exit(code, msg, sigError, backendError) ==
  /\ metrics' =
       LET m1 == RecordStatus(metrics, code, req.path)
           m2 == IF sigError # "" THEN IncrementSignatureError(m1, sigError) ELSE m1
           m3 == IF backendError # "" THEN IncrementBackendError(m2, backendError) ELSE m2
       IN  RemoveRequestInProgress(m3, req.path)
  /\ w' = HttpError(w, msg, code)
  /\ log' = Append(log, Outcome(code, finalOpts, newUrl))
  /\ pc' = "returned"

\* Lines 86-109: the request arrives, the in-progress gauge is incremented
\* and the path is split; fewer than MinParts parts end the request with 400.
Receive ==
  /\ pc \in {"idle", "returned"}
  /\ Len(log) < MaxRequests
  /\ \E r \in Requests(config) :
       /\ req' = r
       /\ parts' = Split(r.path, Slash)
       /\ metrics0' = metrics
       /\ finalOpts' = <<>>
       /\ newUrl' = <<>>
       /\ backendReqs' = <<>>
       /\ backendResp' = NoResponse
       /\ signCalls' = 0
       /\ IF Len(Split(r.path, Slash)) < MinParts
          THEN /\ metrics' = RemoveRequestInProgress(
                               RecordStatus(AddRequestInProgress(metrics, r.path),
                                            400, r.path), r.path)
               /\ w' = HttpError(NewResponseWriter, "Invalid URL format", 400)
               /\ log' = Append(log, [req |-> r, status |-> 400, finalOpts |-> <<>>,
                                      newUrl |-> <<>>, stage |-> "receive"])
               /\ pc' = "returned"
          ELSE /\ metrics' = AddRequestInProgress(metrics, r.path)
               /\ w' = NewResponseWriter
               /\ log' = log
               /\ pc' = "verify"
  /\ UNCHANGED <<config, call, result, processVars>>

\* A signed content that also covers the query of the request.
VerifiedPathWithQuery(ps) ==
  <<Slash>> \o Join(SubSeq(ps, 3, Len(ps)), <<Slash>>)
    \o (IF DOMAIN req.query # {} THEN B("?") ELSE <<>>)

\* "/"+signablePath: the content the expected signature is computed over.
VerifiedPath(ps) == <<Slash>> \o Join(SubSeq(ps, 3, Len(ps)), <<Slash>>)

\* Lines 111-133: the expected signature is computed over "/" and parts[2:]
\* and compared with parts[1].
VerifySignature ==
  /\ pc = "verify"
  /\ LET signature == parts[2]
         expected == Sign(config.Key, config.Salt, VerifiedPath(parts),
                          config.SignatureSize)
     IN  /\ signCalls' = signCalls + 1
         /\ IF expected.err
            THEN Exit(500, "Error verifying signature", "invalid_key_salt", "")
            ELSE IF SignatureMismatch(signature, expected.sig)
            THEN Exit(403, "Invalid signature", InvalidSignatureLabel, "")
            ELSE /\ pc' = "merge"
                 /\ UNCHANGED <<metrics, w, log>>
  /\ UNCHANGED <<config, req, parts, finalOpts, newUrl, backendReqs, backendResp,
                 metrics0, call, result, processVars>>

\* Lines 135-143: path options and query options are parsed and merged and
\* the format of the Accept header is appended.
MergeRequestOptions ==
  /\ pc = "merge"
  /\ LET existingOpts == ParsePathOptions(SubSeq(parts, 3, Len(parts)))
         queryOpts == ParseQueryToOptions(req.query)
     IN  \E merged \in MergeOptions(existingOpts, queryOpts) :
           finalOpts' = addFormatFromAcceptHeader(merged, HeaderGet(req.header, "Accept"))
  /\ pc' = "rebuild"
  /\ UNCHANGED <<config, metrics, req, parts, newUrl, backendReqs, backendResp, w,
                 signCalls, metrics0, log, call, result, processVars>>

\* Lines 145-170: the last part is decoded and the backend URL is generated.
RebuildURL ==
  /\ pc = "rebuild"
  /\ LET b64TargetUri == IF Len(parts) > 2 THEN parts[Len(parts)] ELSE <<>>
         decoded == UrlSafeDecode(b64TargetUri)
         generated == GenerateURL(decoded.bytes, finalOpts, config)
     IN  IF decoded.err
         THEN /\ Exit(400, "Error decoding URL", "", "")
              /\ UNCHANGED <<newUrl, signCalls>>
         ELSE /\ signCalls' = signCalls + 1
              /\ IF generated.err
                 THEN /\ Exit(500, "Error generating URL", "", "")
                      /\ UNCHANGED newUrl
                 ELSE /\ newUrl' = generated.url
                      /\ pc' = "request"
                      /\ UNCHANGED <<metrics, w, log>>
  /\ UNCHANGED <<config, req, parts, finalOpts, backendReqs, backendResp, metrics0,
                 call, result, processVars>>

\* Lines 175-213: the backend request is created, the headers are copied,
\* the bearer token is set and client.Do is called.
RequestBackend ==
  /\ pc = "request"
  /\ IF NewRequestFails(newUrl)
     THEN /\ Exit(500, "Error creating request", "", "request_creation_error")
          /\ UNCHANGED <<backendReqs, backendResp>>
     ELSE /\ backendReqs' =
               Append(backendReqs, BackendRequest(newUrl, req.header, config.Secret))
          /\ \/ /\ backendResp' = [kind |-> "error", StatusCode |-> 0, Header |-> NoHeader]
                /\ Exit(ConnectionErrorStatus, "Error fetching image", "",
                        ConnectionErrorLabel)
             \/ /\ \E code \in BackendStatuses :
                     backendResp' = [kind |-> "response", StatusCode |-> code,
                                     Header |-> BackendHeader]
                /\ pc' = "stream"
                /\ UNCHANGED <<metrics, w, log>>
  /\ UNCHANGED <<config, req, parts, finalOpts, newUrl, signCalls, metrics0,
                 call, result, processVars>>

\* Lines 215-230: headers and status of the backend are written, the body is
\* copied (a failure of the copy is counted), the backend status is counted
\* and observed, and the deferred RemoveRequestInProgress runs.
StreamResponse ==
  /\ pc = "stream"
  /\ \E copyFails \in BOOLEAN :
       /\ w' = [WriteHeader([w EXCEPT !.header = CopyResponseHeader(@, backendResp.Header)],
                             backendResp.StatusCode)
                 EXCEPT !.body = IF copyFails THEN "part of the backend body"
                                 ELSE "backend body"]
       /\ metrics' =
            LET m1 == IF copyFails
                      THEN IncrementBackendError(metrics, ResponseCopyErrorLabel)
                      ELSE metrics
            IN  RemoveRequestInProgress(
                  RecordStatus(m1, backendResp.StatusCode, req.path), req.path)
  /\ log' = Append(log, Outcome(backendResp.StatusCode, finalOpts, newUrl))
  /\ pc' = "returned"
  /\ UNCHANGED <<config, req, parts, finalOpts, newUrl, backendReqs, backendResp,
                 signCalls, metrics0, call, result, processVars>>

Next ==
  \/ Receive
  \/ VerifySignature
  \/ MergeRequestOptions
  \/ RebuildURL
  \/ RequestBackend
  \/ StreamResponse

Spec == Init /\ [][Next]_vars

(***************************************************************************)
(* Properties of the handler.                                              *)
(***************************************************************************)

\* The parts of the inbound path, the signature it provides and the
\* signature the configuration yields for the rest of the path.
ReqParts == Split(req.path, Slash)
ProvidedSignature == IF Len(ReqParts) >= 2 THEN ReqParts[2] ELSE <<>>
ExpectedSignature ==
  Sign(config.Key, config.Salt,
       <<Slash>> \o Join(SubSeq(ReqParts, 3, Len(ReqParts)), <<Slash>>),
       config.SignatureSize)

\* The request in hand reached the comparison of the signatures and failed it.
WrongSignature ==
  /\ pc # "idle"
  /\ Len(ReqParts) >= 3
  /\ ~ExpectedSignature.err
  /\ ProvidedSignature # ExpectedSignature.sig

\* What the request in hand has added to a collector.
Delta(collector, labels) ==
  Value(metrics[collector], labels) - Value(metrics0[collector], labels)
DeltaTotal(collector) == Total(metrics[collector]) - Total(metrics0[collector])

\* C1 (as stated): a backend request is issued only if the provided signature
\* equals Sign(Key, Salt, "/" + rest, SignatureSize); every request whose
\* signature differs gets no backend request and status 403.
C1_Original ==
  /\ backendReqs # <<>> =>
       ~ExpectedSignature.err /\ ProvidedSignature = ExpectedSignature.sig
  /\ (pc # "idle" /\ ProvidedSignature # ExpectedSignature.sig) =>
       backendReqs = <<>> /\ (pc = "returned" => w.status = 403)

\* C1 (amended): a backend request is issued only if the provided signature
\* equals the expected one; a request of at least 3 path parts whose
\* signature differs from the signature computed with a decodable key and
\* salt gets no backend request and status 403.
C1_SignatureGate ==
  /\ backendReqs # <<>> =>
       ~ExpectedSignature.err /\ ProvidedSignature = ExpectedSignature.sig
  /\ WrongSignature => backendReqs = <<>> /\ (pc = "returned" => w.status = 403)

C1_Witness ==
  /\ pc = "returned" /\ WrongSignature /\ w.status = 403 /\ backendReqs = <<>>
  /\ Len(ProvidedSignature) = Len(ExpectedSignature.sig)

\* The segments of a path: its parts behind the leading slash.
Segments(path) == Len(Split(path, Slash)) - 1

\* C4 (as stated): a request whose path has 2 or fewer segments is answered
\* 400, and no signature is computed and no backend call is made for it.
C4_Original ==
  (pc # "idle" /\ Segments(req.path) <= 2) =>
    /\ signCalls = 0
    /\ backendReqs = <<>>
    /\ pc = "returned" => w.status = 400

\* C4 (amended): a request whose path has 1 or fewer segments (fewer than 3
\* parts when split at the slashes) is answered 400, and no signature is
\* computed and no backend call is made for it.
C4_ShortPathRejected ==
  (pc # "idle" /\ Segments(req.path) <= 1) =>
    /\ signCalls = 0
    /\ backendReqs = <<>>
    /\ pc = "returned" => w.status = 400

C4_Witness ==
  /\ pc = "returned" /\ Segments(req.path) = 1 /\ w.status = 400 /\ signCalls = 0

\* C5: a request with a correctly shaped path and a wrong signature is
\* answered 403; handling it increments the signature-error counter once,
\* under "invalid_signature", and the request counter once, under Forbidden,
\* and increments no backend-error counter.
C5_WrongSignatureCounted ==
  (pc = "returned" /\ WrongSignature) =>
    /\ w.status = 403
    /\ Delta("SignatureErrors", "invalid_signature") = 1
    /\ DeltaTotal("SignatureErrors") = 1
    /\ Delta("RequestsTotal", <<"Forbidden", req.path>>) = 1
    /\ DeltaTotal("RequestsTotal") = 1
    /\ DeltaTotal("BackendErrors") = 0

C5_Witness ==
  /\ pc = "returned" /\ WrongSignature
  /\ Value(metrics.SignatureErrors, "invalid_signature") >= 1
  /\ Value(metrics.RequestsTotal, <<"Forbidden", req.path>>) >= 1

HasSuffix(s, x) == Len(s) >= Len(x) /\ SubSeq(s, Len(s) - Len(x) + 1, Len(s)) = x

\* The literal plain/<uri> at the end of a path, "" when there is none.
PlainTarget(path) ==
  LET marker == B("/plain/")
      at == {i \in 0..(Len(path) - Len(marker)) :
               SubSeq(path, i + 1, i + Len(marker)) = marker}
  IN  IF at = {} THEN <<>>
      ELSE SubSeq(path, (CHOOSE i \in at : \A j \in at : i <= j) + 2, Len(path))

ValidSignature ==
  /\ pc # "idle"
  /\ Len(ReqParts) >= 3
  /\ ~ExpectedSignature.err
  /\ ProvidedSignature = ExpectedSignature.sig

\* C7: with Encode=false a validly signed request whose path ends in
\* plain/<uri> is forwarded with that same literal target; with Encode=true
\* the base64 final segment is forwarded as the base64 of the same URI.
C7_TargetForwarded ==
  (pc = "returned" /\ ValidSignature) =>
    /\ (~config.Encode /\ PlainTarget(req.path) # <<>>) =>
         /\ Len(backendReqs) = 1
         /\ HasSuffix(backendReqs[1].url, <<Slash>> \o PlainTarget(req.path))
    /\ (config.Encode /\ backendReqs # <<>>) =>
         HasSuffix(backendReqs[1].url,
                   <<Slash>> \o UrlSafeEncode(UrlSafeDecode(ReqParts[Len(ReqParts)]).bytes))

\* C9: for the Accept header image/webp,image/avif,image/*;q=0.8 the backend
\* URL carries the directive f:webp.
C9_ReadmeExampleWebp ==
  (backendReqs # <<>> /\ HeaderGet(req.header, "Accept") = ReadmeAccept) =>
    Contains(backendReqs[1].url, B("/f:webp/"))

\* The directives of an option string, as a set.
DirectiveSet(opts) ==
  IF opts = <<>> THEN {} ELSE {Split(opts, Slash)[i] : i \in 1..Len(Split(opts, Slash))}

\* The last segment of a URL.
LastSegment(url) == LET p == Split(url, Slash) IN p[Len(p)]

Rejected(e) == e.stage = "verify" /\ e.status = 403
Verified(e) == e.stage \in {"rebuild", "request", "stream"}

\* C11: the outcome of signature verification depends only on the path and
\* the configuration: two requests with the same path and different queries
\* or headers are both rejected with 403 or both pass verification.
C11_SignatureIgnoresQuery ==
  \A i, j \in 1..Len(log) :
    log[i].req.path = log[j].req.path =>
      /\ Rejected(log[i]) <=> Rejected(log[j])
      /\ Verified(log[i]) <=> Verified(log[j])

C11_Witness ==
  /\ Len(log) = 2
  /\ log[1].req.path = log[2].req.path
  /\ log[1].req.query # log[2].req.query
  /\ Verified(log[1]) /\ Verified(log[2])
  /\ log[1].newUrl # <<>> /\ log[2].newUrl # <<>>
  /\ DirectiveSet(log[1].finalOpts) # DirectiveSet(log[2].finalOpts)

\* Unpadded URL-safe base64 as the decoder takes it: letters, digits, "-"
\* and "_" only, carriage returns and line feeds apart, and not one
\* character more than a multiple of four.
Base64Text(s) ==
  LET t == SelectSeq(s, LAMBDA b : b \notin {10, 13})
  IN  /\ \A i \in 1..Len(t) : IsAlnum(t[i]) \/ t[i] \in {Ord("-"), Ord("_")}
      /\ Len(t) % 4 # 1

HexText(s) ==
  /\ Len(s) % 2 = 0
  /\ \A i \in 1..Len(s) : s[i] \in {Ord(c) : c \in CharsOf("0123456789abcdefABCDEF")}

\* C14: when the key or the salt is not hexadecimal, Sign returns an error
\* and no signature, and every request of at least 3 path parts is answered
\* 500 at the signature check, whatever signature it provides, without a
\* backend call and with the signature-error counter incremented once under
\* "invalid_key_salt".
C14_BadKeyMaterial ==
  (~HexText(config.Key) \/ ~HexText(config.Salt)) =>
    /\ Sign(config.Key, config.Salt, req.path, config.SignatureSize)
         = [err |-> TRUE, sig |-> <<>>]
    /\ (pc = "returned" /\ Len(ReqParts) >= 3) =>
         /\ w.status = 500
         /\ log[Len(log)].stage = "verify"
         /\ backendReqs = <<>>
         /\ Delta("SignatureErrors", "invalid_key_salt") = 1
         /\ DeltaTotal("SignatureErrors") = 1

C14_Witness ==
  /\ pc = "returned" /\ Len(ReqParts) >= 3
  /\ HexText(config.Key) /\ ~HexText(config.Salt)
  /\ w.status = 500
  /\ Value(metrics.SignatureErrors, "invalid_key_salt") = 2

\* C15: every handled request gets one terminal status: when the handler
\* has returned the status line was written once, and the request counter
\* was incremented once and the duration observed once, both under that
\* status; while the request is in hand nothing is written or counted.
C15_OneTerminalStatus ==
  /\ pc = "returned" =>
       /\ w.writes = 1
       /\ w.status = log[Len(log)].status
       /\ DeltaTotal("RequestsTotal") = 1
       /\ DeltaTotal("RequestDuration") = 1
       /\ Delta("RequestsTotal", <<StatusText(w.status), req.path>>) = 1
       /\ Delta("RequestDuration", <<StatusText(w.status), req.path>>) = 1
  /\ pc \in {"verify", "merge", "rebuild", "request", "stream"} =>
       /\ w.writes = 0
       /\ DeltaTotal("RequestsTotal") = 0
       /\ DeltaTotal("RequestDuration") = 0

C15_Witness ==
  /\ pc = "returned" /\ Len(log) = 2
  /\ log[1].status = 403 /\ log[2].status = 404
  /\ w.writes = 1 /\ w.status = 404
  /\ Total(metrics.RequestsTotal) = 2 /\ Total(metrics.RequestDuration) = 2

\* C16: whenever the backend returns a response, the client receives the
\* status and the headers of the backend, and the request is counted and
\* its duration observed under the status of the backend.
C16_BackendResponseRelayed ==
  (pc = "returned" /\ backendResp.kind = "response") =>
    /\ w.status = backendResp.StatusCode
    /\ w.header = backendResp.Header
    /\ Delta("RequestsTotal", <<StatusText(backendResp.StatusCode), req.path>>) = 1
    /\ Delta("RequestDuration", <<StatusText(backendResp.StatusCode), req.path>>) = 1
    /\ DeltaTotal("RequestsTotal") = 1
    /\ DeltaTotal("RequestDuration") = 1

C16_Witness ==
  /\ pc = "returned" /\ backendResp.kind = "response"
  /\ backendResp.StatusCode = 500 /\ w.status = 500
  /\ HeaderGet(w.header, "Content-Type") = B("image/webp")
  /\ Delta("RequestsTotal", <<"Internal Server Error", req.path>>) = 1
  /\ Delta("BackendErrors", "response_copy_error") = 1

\* The value of the Authorization header the proxy sets.
Bearer == <<B("Bearer ") \o config.Secret>>

\* C17 (as stated): the backend request is a GET of the rebuilt URL that
\* carries every value of every header of the inbound request and, if and
\* only if a secret is configured, the Authorization header of the secret.
C17_Original ==
  \A i \in 1..Len(backendReqs) :
    /\ backendReqs[i].method = "GET"
    /\ backendReqs[i].url = newUrl
    /\ \A n \in DOMAIN req.header :
         n \in DOMAIN backendReqs[i].header /\ backendReqs[i].header[n] = req.header[n]
    /\ (config.Secret # <<>>) <=>
         HeaderGet(backendReqs[i].header, "Authorization") = Bearer[1]

\* C17 (amended): the backend request is a GET of the rebuilt URL; it carries
\* every value of every header of the inbound request, except that with a
\* secret configured its only Authorization value is the bearer token, which
\* replaces the Authorization header of the client; without a secret it has
\* the headers of the inbound request and no other.
C17_BackendRequest ==
  \A i \in 1..Len(backendReqs) :
    /\ backendReqs[i].method = "GET"
    /\ backendReqs[i].url = newUrl
    /\ \A n \in DOMAIN req.header :
         (n # "Authorization" \/ config.Secret = <<>>) =>
           n \in DOMAIN backendReqs[i].header /\ backendReqs[i].header[n] = req.header[n]
    /\ config.Secret # <<>> =>
         /\ "Authorization" \in DOMAIN backendReqs[i].header
         /\ backendReqs[i].header["Authorization"] = Bearer
    /\ DOMAIN backendReqs[i].header =
         (DOMAIN req.header) \cup (IF config.Secret # <<>> THEN {"Authorization"} ELSE {})

C17_Witness ==
  /\ Len(backendReqs) = 1
  /\ config.Secret = B("s3")
  /\ "Authorization" \in DOMAIN req.header
  /\ backendReqs[1].header["Authorization"] = <<B("Bearer s3")>>
  /\ backendReqs[1].header["Cookie"] = <<B("a=1"), B("b=2")>>

(***************************************************************************)
(* The functions of url.go, handler.go and sign.go called on their own.    *)
(***************************************************************************)

\* The pieces Accept headers are built from.
AcceptFragments ==
  { B("image/avif"), B("image/webp"), B("image/jpeg"), B("image/png"),
    B("image/*;q=0.8"), B("text/html"), B("image/jpg"), B("ximage/pngx") }

AcceptHeaders ==
  UNION { { Join(f, B(",")) : f \in [1..n -> AcceptFragments] } : n \in 0..MaxAcceptParts }

FormatCalls ==
  { [fn |-> "addFormatFromAcceptHeader", options |-> o, acceptHeader |-> a] :
      o \in {<<>>, B("w:100/h:200")}, a \in AcceptHeaders }

OptionKeys == <<B("w"), B("h"), B("q")>>
KeySet == {OptionKeys[i] : i \in 1..Len(OptionKeys)}

\* Directive sets of the path and option sets of the query over w, h and q.
PathSets == UNION { [ks -> {B("300"), B("-5")}] : ks \in SUBSET KeySet }
QuerySets == UNION { [ks -> {0, 200, -7}] : ks \in SUBSET KeySet }

\* The directives of a set in the order w, h, q, joined by slashes.
PathString(P) ==
  SerializeOpts(P, SelectSeq(OptionKeys, LAMBDA k : k \in DOMAIN P))

\* The query parameters that carry an option set.
QueryValues(Q) == [k \in DOMAIN Q |-> <<Itoa(Q[k])>>]

MergeCalls == { [fn |-> "MergeOptions", P |-> P, Q |-> Q] : P \in PathSets, Q \in QuerySets }

URLConfigs ==
  { [TestConfig EXCEPT !.Encode = e, !.SignatureSize = n, !.Key = k, !.BaseURL = b] :
      e \in BOOLEAN, n \in {0, 8, 32}, k \in {TestKey, B("invalid")},
      b \in {B("http://imgproxy:8080"), B("http://cdn.x/img/")} }

URLCalls ==
  { [fn |-> "GenerateURL", uri |-> u, options |-> o, config |-> c] :
      u \in {SourceURI, B("a.jpg"), B("local/a b.png")},
      o \in {<<>>, B("w:300"), B("q:75/w:300/f:webp")},
      c \in URLConfigs }

\* Calls of Sign: hexadecimal and other keys and salts, and sizes on both
\* sides of 0 and of the length of the digest.
SignSizes == {-1, 0, 1, 2, 3, 8, 31, 32, 33, 64}
SignCalls ==
  { [fn |-> "Sign", keyHex |-> k, saltHex |-> t, content |-> c, size |-> n] :
      k \in {TestKey, B("00ff"), B("ZZ")}, t \in {TestKey, <<>>},
      c \in {B("/test"), <<>>, B("/w:300/") \o UrlSafeEncode(SourceURI)},
      n \in SignSizes }

\* A number no int holds.
TooLarge == B("99999999999999999999")

\* The path segments ParsePathOptions is called with.
SegmentPool ==
  { B("w:300"), B("h:-5"), B("q:+7"), B("w:0"), B("invalid"), B("w:"), B("x:5"),
    B("w:300:extra"), B(":5"), B("h:1e3"), B("w:abc"), B("W:5"), B("f:png"), <<>>,
    B("h:") \o TooLarge, UrlSafeEncode(SourceURI) }
PathCalls ==
  { [fn |-> "ParsePathOptions", pathSegments |-> p] :
      p \in UNION { [1..n -> SegmentPool] : n \in 0..MaxSegments } }

\* The values a query parameter may have, and the queries built from them:
\* w, h and q absent or with one of the values, x absent or present.
ValuePool ==
  { <<<<>>>>, <<B("100")>>, <<B("-5")>>, <<B("invalid")>>, <<B("100.5")>>,
    <<TooLarge>>, <<B("7"), B("8")>> }
QueryCalls ==
  { [fn |-> "ParseQueryToOptions", values |-> v] :
      v \in UNION { [ks -> ValuePool] : ks \in SUBSET {B("w"), B("h"), B("q")} }
            \cup UNION { { [k \in ks \cup {B("x")} |->
                              IF k = B("x") THEN <<B("100")>> ELSE u[k]] : u \in [ks -> ValuePool] } :
                         ks \in SUBSET {B("w"), B("h"), B("q")} } }

\* The byte sequences of the encoding tests: bytes whose groups yield the
\* characters - and _, a line feed, the byte of the padding character, and
\* every length from the empty sequence on.
ByteValues == {0, 10, 61, 251, 255}
EncodeCalls ==
  { [fn |-> "UrlSafeEncode", data |-> d] :
      d \in UNION { [1..n -> ByteValues] : n \in 0..MaxBytes } }

InitPure ==
  /\ config = TestConfig
  /\ metrics = NewMetrics
  /\ pc = "idle"
  /\ req = NoRequest
  /\ parts = <<>>
  /\ finalOpts = <<>>
  /\ newUrl = <<>>
  /\ backendReqs = <<>>
  /\ backendResp = NoResponse
  /\ w = NewResponseWriter
  /\ signCalls = 0
  /\ metrics0 = NewMetrics
  /\ log = <<>>
  /\ call \in FormatCalls \cup MergeCalls \cup URLCalls \cup SignCalls \cup PathCalls
              \cup QueryCalls \cup EncodeCalls
  /\ result = NoResult
  /\ InitProcess

CallFormat ==
  /\ call.fn = "addFormatFromAcceptHeader"
  /\ ~result.done
  /\ result' = [done |-> TRUE,
                value |-> addFormatFromAcceptHeader(call.options, call.acceptHeader)]
  /\ UNCHANGED <<handlerVars, call>>

CallMerge ==
  /\ call.fn = "MergeOptions"
  /\ ~result.done
  /\ \E merged \in MergeOptions(PathString(call.P),
                                ParseQueryToOptions(QueryValues(call.Q))) :
       result' = [done |-> TRUE, value |-> merged]
  /\ UNCHANGED <<handlerVars, call>>

CallGenerateURL ==
  /\ call.fn = "GenerateURL"
  /\ ~result.done
  /\ result' = [done |-> TRUE,
                value |-> GenerateURL(call.uri, call.options, call.config)]
  /\ UNCHANGED <<handlerVars, call>>

CallSign ==
  /\ call.fn = "Sign"
  /\ ~result.done
  /\ result' = [done |-> TRUE,
                value |-> Sign(call.keyHex, call.saltHex, call.content, call.size)]
  /\ UNCHANGED <<handlerVars, call>>

CallParsePathOptions ==
  /\ call.fn = "ParsePathOptions"
  /\ ~result.done
  /\ result' = [done |-> TRUE, value |-> ParsePathOptions(call.pathSegments)]
  /\ UNCHANGED <<handlerVars, call>>

CallParseQueryToOptions ==
  /\ call.fn = "ParseQueryToOptions"
  /\ ~result.done
  /\ result' = [done |-> TRUE, value |-> ParseQueryToOptions(call.values)]
  /\ UNCHANGED <<handlerVars, call>>

CallUrlSafeEncode ==
  /\ call.fn = "UrlSafeEncode"
  /\ ~result.done
  /\ result' = [done |-> TRUE, value |-> UrlSafeEncode(call.data)]
  /\ UNCHANGED <<handlerVars, call>>

\* The encoded text is handed to UrlSafeDecode.
CallUrlSafeDecode ==
  /\ call.fn = "UrlSafeEncode"
  /\ result.done
  /\ "decoded" \notin DOMAIN result
  /\ result' = [done |-> TRUE, value |-> result.value,
                decoded |-> UrlSafeDecode(result.value)]
  /\ UNCHANGED <<handlerVars, call>>

NextPure ==
  \/ CallFormat
  \/ CallMerge
  \/ CallGenerateURL
  \/ CallSign
  \/ CallParsePathOptions
  \/ CallParseQueryToOptions
  \/ CallUrlSafeEncode
  \/ CallUrlSafeDecode

SpecPure == InitPure /\ [][NextPure]_vars

\* strings.TrimSuffix(s, "/")
TrimSlash(s) ==
  IF Len(s) > 0 /\ s[Len(s)] = Slash THEN SubSeq(s, 1, Len(s) - 1) ELSE s

\* The position of the first slash of s, Len(s) + 1 when it has none.
FirstSlash(s) ==
  IF \E i \in 1..Len(s) : s[i] = Slash
  THEN CHOOSE i \in 1..Len(s) : s[i] = Slash /\ \A j \in 1..(i - 1) : s[j] # Slash
  ELSE Len(s) + 1

\* C2: a URL GenerateURL returns is baseURL/newSignature/mergedOptions/target,
\* and newSignature is the signature of the path that follows the signature
\* segment in that URL, byte for byte.
C2_SignedPathIsSentPath ==
  (call.fn = "GenerateURL" /\ result.done /\ ~result.value.err) =>
    LET url == result.value.url
        cfg == call.config
        base == TrimSlash(cfg.BaseURL) \o <<Slash>>
        tail == SubSeq(url, Len(base) + 1, Len(url))
        sigSegment == SubSeq(tail, 1, FirstSlash(tail) - 1)
        P == SubSeq(tail, FirstSlash(tail), Len(tail))
        target == IF cfg.Encode THEN UrlSafeEncode(call.uri) ELSE B("plain/") \o call.uri
    IN  /\ HasPrefix(url, base)
        /\ P = <<Slash>>
               \o (IF call.options # <<>> THEN call.options \o <<Slash>> ELSE <<>>)
               \o target
        /\ sigSegment = Sign(cfg.Key, cfg.Salt, P, cfg.SignatureSize).sig

\* The directives of a merged string as a key-to-value map.
DirectiveMap(opts) == PathOptMap(Split(opts, Slash), EmptyMap)

\* The number of directives of a merged string.
DirectiveCount(opts) == IF opts = <<>> THEN 0 ELSE Len(Split(opts, Slash))

\* C3 (as stated): the merged set gives every key of the query the query's
\* value and every key of the path alone the path's value, and has no other
\* key.
C3_Original ==
  (call.fn = "MergeOptions" /\ result.done) =>
    /\ DirectiveMap(result.value) =
         [k \in (DOMAIN call.P) \cup (DOMAIN call.Q) |->
            IF k \in DOMAIN call.Q THEN Itoa(call.Q[k]) ELSE call.P[k]]
    /\ DirectiveCount(result.value) = Cardinality((DOMAIN call.P) \cup (DOMAIN call.Q))

\* The keys the query supplies with a value other than 0.
NonZeroKeys(Q) == {k \in DOMAIN Q : Q[k] # 0}

\* C3 (amended): the merged set gives every key the query supplies with a
\* non-zero value the query's value and every other key of the path the
\* path's value, and has no other key; a query value of 0 counts as unset.
C3_MergePrecedence ==
  (call.fn = "MergeOptions" /\ result.done) =>
    /\ DirectiveMap(result.value) =
         [k \in (DOMAIN call.P) \cup NonZeroKeys(call.Q) |->
            IF k \in NonZeroKeys(call.Q) THEN Itoa(call.Q[k]) ELSE call.P[k]]
    /\ DirectiveCount(result.value) = Cardinality((DOMAIN call.P) \cup NonZeroKeys(call.Q))

C3_Witness ==
  /\ call.fn = "MergeOptions" /\ result.done
  /\ \E k \in (DOMAIN call.P) \cap NonZeroKeys(call.Q) :
       /\ Itoa(call.Q[k]) # call.P[k]
       /\ DirectiveMap(result.value)[k] = Itoa(call.Q[k])
  /\ \E k \in (DOMAIN call.P) \ (DOMAIN call.Q) : DirectiveMap(result.value)[k] = call.P[k]

\* The media types in priority order and the formats they are rendered as.
MediaTypes == <<B("image/avif"), B("image/webp"), B("image/jpeg"), B("image/png")>>
Rendered == <<B("avif"), B("webp"), B("jpg"), B("png")>>

\* The media types that occur in a header, by priority.
Offered(header) == {k \in 1..Len(MediaTypes) : Contains(header, MediaTypes[k])}

\* The negotiated format: that of the offered media type of highest priority.
Negotiated(header) ==
  IF Offered(header) = {} THEN <<>>
  ELSE Rendered[CHOOSE k \in Offered(header) : \A j \in Offered(header) : k <= j]

FullDigest ==
  HmacSha256(HexDecode(call.keyHex).bytes, HexDecode(call.saltHex).bytes \o call.content)

\* C13: Sign with a size below 0 or of 32 and more returns the signature of
\* size 32, the full digest; with a size from 0 to 32 the signature decodes
\* to exactly size bytes, the first of the full digest; the decoded
\* signature is never longer than 32 bytes.
C13_TruncationClamp ==
  (call.fn = "Sign" /\ result.done /\ ~result.value.err) =>
    LET decoded == UrlSafeDecode(result.value.sig)
    IN  /\ ~decoded.err
        /\ Len(decoded.bytes) <= 32
        /\ (call.size < 0 \/ call.size >= 32) =>
             /\ decoded.bytes = FullDigest
             /\ Len(decoded.bytes) = 32
             /\ result.value = Sign(call.keyHex, call.saltHex, call.content, 32)
        /\ (call.size >= 0 /\ call.size <= 32) =>
             /\ Len(decoded.bytes) = call.size
             /\ decoded.bytes = SubSeq(FullDigest, 1, call.size)

C13_Witness ==
  /\ call.fn = "Sign" /\ result.done /\ ~result.value.err
  /\ call.size = -1
  /\ Len(result.value.sig) = 43
  /\ UrlSafeDecode(result.value.sig).bytes = FullDigest

\* A base-10 integer string: an optional sign and at least one digit.
IntegerText(v) ==
  LET d == IF Len(v) > 0 /\ v[1] \in {Ord("+"), Ord("-")} THEN Tail(v) ELSE v
  IN  Len(d) > 0 /\ \A i \in 1..Len(d) : d[i] >= Ord("0") /\ d[i] <= Ord("9")

\* The positions of the colons of a segment.
Colons(seg) == {i \in 1..Len(seg) : seg[i] = Ord(":")}

\* A segment of the form key:value with one colon, a key among w, h and q and
\* an integer string for value.
Directive(seg) ==
  /\ Cardinality(Colons(seg)) = 1
  /\ LET c == CHOOSE i \in Colons(seg) : TRUE
     IN  /\ SubSeq(seg, 1, c - 1) \in {B("w"), B("h"), B("q")}
         /\ IntegerText(SubSeq(seg, c + 1, Len(seg)))

\* A directive whose value is in the range of int.
DirectiveInRange(seg) ==
  /\ Directive(seg)
  /\ LET v == SubSeq(seg, (CHOOSE i \in Colons(seg) : TRUE) + 1, Len(seg))
     IN  IF v[1] \in {Ord("+"), Ord("-")} THEN InIntRange(Tail(v), v[1] = Ord("-"))
         ELSE InIntRange(v, FALSE)

\* C18 (as stated): ParsePathOptions keeps exactly the segments of the form
\* key:value with one colon, a key among w, h and q and a non-empty integer
\* string for value, in the order of the input.
C18_Original ==
  (call.fn = "ParsePathOptions" /\ result.done) =>
    result.value = Join(SelectSeq(call.pathSegments, Directive), <<Slash>>)

\* C18 (amended): ParsePathOptions keeps exactly the segments of the form
\* key:value with one colon, a key among w, h and q and for value an integer
\* string in the range of int, in the order of the input; every other
\* segment is dropped.
C18_WhitelistFiltering ==
  (call.fn = "ParsePathOptions" /\ result.done) =>
    result.value = Join(SelectSeq(call.pathSegments, DirectiveInRange), <<Slash>>)

C18_Witness ==
  /\ call.fn = "ParsePathOptions" /\ result.done
  /\ Len(call.pathSegments) = 2
  /\ call.pathSegments[1] = B("h:") \o TooLarge
  /\ Directive(call.pathSegments[1])
  /\ call.pathSegments[2] = B("q:+7")
  /\ result.value = B("q:+7")

\* What a value of the value pool means as an integer; 0 for a value that
\* is empty or does not parse.
Meaning(raw) ==
  CASE raw = B("100") -> 100
    [] raw = B("-5") -> 0 - 5
    [] raw = B("7") -> 7
    [] OTHER -> 0

\* The option a query yields for one key: the meaning of the first value
\* of the key, 0 when the key is absent.
Expected(values, key) ==
  IF key \in DOMAIN values THEN Meaning(values[key][1]) ELSE 0

\* C19: each of w, h and q is set to the integer value of its query
\* parameter when the parameter is present and parses, negative values
\* included, and is left zero when it is absent, empty or unparseable; no
\* other parameter affects the result.
C19_QueryOptions ==
  (call.fn = "ParseQueryToOptions" /\ result.done) =>
    /\ result.value = [Width   |-> Expected(call.values, B("w")),
                       Height  |-> Expected(call.values, B("h")),
                       Quality |-> Expected(call.values, B("q"))]
    /\ result.value =
         ParseQueryToOptions([k \in (DOMAIN call.values) \ {B("x")} |-> call.values[k]])

C19_Witness ==
  /\ call.fn = "ParseQueryToOptions" /\ result.done
  /\ DOMAIN call.values = {B("w"), B("h"), B("x")}
  /\ call.values[B("w")] = <<B("-5")>>
  /\ call.values[B("h")] = <<B("100.5")>>
  /\ result.value = [Width |-> 0 - 5, Height |-> 0, Quality |-> 0]

\* The directives of an option string, in order.
Directives(opts) == IF opts = <<>> THEN <<>> ELSE Split(opts, Slash)

BackendSegments(url) ==
  Split(SubSeq(url, Len(config.BaseURL) + 1, Len(url)), Slash)

\* Where the target starts: the last segment holds the encoded target, the
\* segment plain opens the literal one.
TargetStart(segs) ==
  IF config.Encode THEN Len(segs)
  ELSE CHOOSE i \in 1..Len(segs) :
         segs[i] = B("plain") /\ \A j \in 1..(i - 1) : segs[j] # B("plain")

\* The segments between the signature and the target.
Forwarded(url) ==
  LET segs == BackendSegments(url) IN SubSeq(segs, 3, TargetStart(segs) - 1)

\* The key of a segment: what precedes its first colon.
KeyOf(seg) ==
  IF Colons(seg) = {} THEN seg
  ELSE SubSeq(seg, 1, (CHOOSE i \in Colons(seg) : \A j \in Colons(seg) : i <= j) - 1)

\* C21: in every backend URL the segments between the signature and the
\* target are directives with a key among w, h and q, or the directive f of
\* the format negotiated from the Accept header; nothing else of the inbound
\* path or query is forwarded.
C21_OnlyWhitelistedKeys ==
  \A i \in 1..Len(backendReqs) :
    LET url == backendReqs[i].url
        fmt == Negotiated(HeaderGet(req.header, "Accept"))
    IN  /\ HasPrefix(url, config.BaseURL \o <<Slash>>)
        /\ \A j \in 1..Len(Forwarded(url)) :
             LET seg == Forwarded(url)[j]
             IN  /\ Cardinality(Colons(seg)) = 1
                 /\ \/ KeyOf(seg) \in {B("w"), B("h"), B("q")}
                    \/ fmt # <<>> /\ seg = B("f:") \o fmt

C21_Witness ==
  /\ Len(backendReqs) = 1
  /\ Contains(req.path, B("/x:5/"))
  /\ Contains(req.path, B("/f:png/"))
  /\ B("x") \in DOMAIN req.query
  /\ Forwarded(backendReqs[1].url) \in {<<B("w:200"), B("q:90")>>, <<B("q:90"), B("w:200")>>}

\* The request in hand returned from the last stage after io.Copy failed.
CopyFailed ==
  /\ pc = "returned"
  /\ log[Len(log)].stage = "stream"
  /\ w.body = "part of the backend body"

\* C22: when the copy of the backend body fails, the status and the headers
\* already sent stay those of the backend, the backend-error counter is
\* incremented once, under response_copy_error, and the request is counted
\* and observed once, under the status of the backend.
C22_CopyFailure ==
  CopyFailed =>
    /\ w.status = backendResp.StatusCode
    /\ w.writes = 1
    /\ w.header = backendResp.Header
    /\ log[Len(log)].status = backendResp.StatusCode
    /\ Delta("BackendErrors", "response_copy_error") = 1
    /\ DeltaTotal("BackendErrors") = 1
    /\ Delta("RequestsTotal", <<StatusText(backendResp.StatusCode), req.path>>) = 1
    /\ DeltaTotal("RequestsTotal") = 1
    /\ Delta("RequestDuration", <<StatusText(backendResp.StatusCode), req.path>>) = 1
    /\ DeltaTotal("RequestDuration") = 1

C22_Witness ==
  /\ CopyFailed
  /\ backendResp.StatusCode = 404
  /\ Value(metrics.BackendErrors, "response_copy_error") = 1
  /\ Value(metrics.RequestsTotal, <<"Not Found", req.path>>) = 1

\* C23: for every byte sequence, the empty one included, UrlSafeDecode of
\* UrlSafeEncode of it succeeds and yields the sequence again, and the
\* encoded text has no padding character.
C23_EncodeDecodeRoundTrip ==
  (call.fn = "UrlSafeEncode" /\ result.done) =>
    /\ \A i \in 1..Len(result.value) : result.value[i] # Ord("=")
    /\ "decoded" \in DOMAIN result =>
         ~result.decoded.err /\ result.decoded.bytes = call.data

C23_Witness ==
  /\ call.fn = "UrlSafeEncode"
  /\ call.data = <<251, 255>>
  /\ result.done
  /\ "decoded" \in DOMAIN result
  /\ result.value = B("-_8")
  /\ result.decoded = [err |-> FALSE, bytes |-> <<251, 255>>]

\* The stages of HandleImageProxy behind the reception of the request, named
\* by what the handler does next, in the order of the code.
StageOrder == <<"verify", "merge", "rebuild", "request", "stream">>
Rank(stage) == CHOOSE i \in 1..Len(StageOrder) : StageOrder[i] = stage
InHand == pc \notin {"idle", "returned"}

\* A stage is only reached by a request that passed the stages before it.
StagePassed ==
  /\ InHand => Len(ReqParts) >= 3
  /\ (InHand /\ Rank(pc) >= 2) => ValidSignature
  /\ (InHand /\ Rank(pc) >= 4) =>
       ~UrlSafeDecode(ReqParts[Len(ReqParts)]).err /\ newUrl # <<>>
  /\ (InHand /\ Rank(pc) <= 3) => newUrl = <<>>
  /\ (InHand /\ Rank(pc) <= 4) => backendReqs = <<>> /\ backendResp = NoResponse
  /\ pc = "stream" => Len(backendReqs) = 1 /\ backendResp.kind = "response"
  /\ Len(backendReqs) <= 1

\* One step of the handler: a request in hand moves to the next stage or
\* returns; a return is logged with the stage it happened in; after a return
\* only a fresh request follows.
StageStep ==
  /\ InHand =>
       /\ req' = req
       /\ pc' = "returned" \/ (pc' \in {"merge", "rebuild", "request", "stream"}
                                /\ Rank(pc') = Rank(pc) + 1)
       /\ pc' = "returned" =>
            Len(log') = Len(log) + 1 /\ log'[Len(log')].stage = pc
       /\ backendReqs' # backendReqs =>
            pc = "request" /\ Len(backendReqs') = Len(backendReqs) + 1
  /\ ~InHand =>
       /\ pc' \in {"verify", "returned"}
       /\ backendReqs' = <<>> /\ finalOpts' = <<>> /\ newUrl' = <<>>
       /\ pc' = "returned" =>
            Len(log') = Len(log) + 1 /\ log'[Len(log')].stage = "receive"

Last == log[Len(log)]

\* The request in hand has at least three parts and a last part that is
\* not unpadded URL-safe base64.
MalformedTarget == Len(ReqParts) >= 3 /\ ~Base64Text(ReqParts[Len(ReqParts)])

\* C27: the signature is verified before the target is decoded: a request
\* of at least three parts with a wrong signature and a malformed last
\* segment is answered 403, and a request of at least three parts is only
\* answered 400 when its signature was valid.
C27_SignatureBeforeTarget ==
  pc = "returned" =>
    /\ (WrongSignature /\ MalformedTarget) =>
         Last.status = 403 /\ Last.stage = "verify" /\ signCalls = 1
    /\ (Len(ReqParts) >= 3 /\ Last.status = 400) =>
         ValidSignature /\ MalformedTarget /\ Last.stage = "rebuild"

C27_Witness ==
  /\ pc = "returned"
  /\ WrongSignature
  /\ MalformedTarget
  /\ Last.status = 403
  /\ w.status = 403
  /\ backendReqs = <<>>

\* The request in hand has its merged options in finalOpts.
Merged ==
  \/ InHand /\ Rank(pc) >= 3
  \/ pc = "returned" /\ Last.stage \in {"rebuild", "request", "stream"}

\* The values the inbound path gives a key, in the order of the path.
PathValuesOf(key) ==
  LET segs == SubSeq(ReqParts, 3, Len(ReqParts))
      kept == SelectSeq(segs, LAMBDA seg : DirectiveInRange(seg) /\ KeyOf(seg) = key)
  IN  [i \in 1..Len(kept) |-> SubSeq(kept[i], Len(key) + 2, Len(kept[i]))]

\* How often a key occurs among the directives of a string.
Occurrences(opts, key) ==
  Cardinality({i \in 1..Len(Directives(opts)) : KeyOf(Directives(opts)[i]) = key})

\* C28: in the merged option string each of the keys w, h, q and f occurs at
\* most once; a key the path repeats and the query does not supply has the
\* value of its last occurrence in the path; the only f directive is that of
\* the format negotiated from the Accept header, a segment f:<fmt> of the
\* path is not forwarded; the backend URL carries these directives.
C28_KeysOccurOnce ==
  Merged =>
    LET fmt == Negotiated(HeaderGet(req.header, "Accept"))
    IN  /\ \A key \in {B("w"), B("h"), B("q"), B("f")} : Occurrences(finalOpts, key) <= 1
        /\ \A key \in {B("w"), B("h"), B("q")} :
             (key \notin DOMAIN req.query /\ PathValuesOf(key) # <<>>) =>
               LET values == PathValuesOf(key)
               IN  key \o <<Colon>> \o values[Len(values)] \in DirectiveSet(finalOpts)
        /\ Occurrences(finalOpts, B("f")) = IF fmt = <<>> THEN 0 ELSE 1
        /\ fmt # <<>> => B("f:") \o fmt \in DirectiveSet(finalOpts)
        /\ \A i \in 1..Len(backendReqs) :
             Forwarded(backendReqs[i].url) = Directives(finalOpts)

C28_Witness ==
  /\ Merged
  /\ Len(backendReqs) = 1
  /\ req.query = NoQuery
  /\ PathValuesOf(B("w")) = <<B("100"), B("300")>>
  /\ Contains(req.path, B("/f:png/"))
  /\ finalOpts = B("w:300/f:webp")

\* The values of a header, none when the header is absent.
HeaderValues(header, name) == IF name \in DOMAIN header THEN header[name] ELSE <<>>

\* C29: with a secret configured the backend request has one Authorization
\* value, Bearer and the secret, and no Authorization value of the client;
\* with no secret configured the Authorization header of the client is
\* forwarded as it came.
C29_AuthorizationReplaced ==
  \A i \in 1..Len(backendReqs) :
    LET sent   == HeaderValues(backendReqs[i].header, "Authorization")
        client == HeaderValues(req.header, "Authorization")
    IN  IF config.Secret # <<>>
        THEN /\ Len(sent) = 1
             /\ sent[1] = B("Bearer ") \o config.Secret
             /\ \A j \in 1..Len(client) :
                  client[j] # sent[1] => \A k \in 1..Len(sent) : sent[k] # client[j]
        ELSE sent = client

C29_Witness ==
  /\ pc = "stream"
  /\ config.Secret = B("s3")
  /\ HeaderValues(req.header, "Authorization") = <<B("Basic dTpw")>>
  /\ HeaderValues(backendReqs[1].header, "Authorization") = <<B("Bearer s3")>>

\* With no secret configured the credentials of the client reach the backend.
C29_WitnessNoSecret ==
  /\ pc = "stream"
  /\ config.Secret = <<>>
  /\ HeaderValues(backendReqs[1].header, "Authorization") = <<B("Basic dTpw")>>

(***************************************************************************)
(* The process: concurrent calls of NewMetrics (CreateHandler) and         *)
(* concurrent calls of HandleImageProxy on one handler.  The collectors    *)
(* are Prometheus vectors, whose operations are atomic; everything else a  *)
(* call of HandleImageProxy writes is a local of that call.                *)
(***************************************************************************)

\* The configurations of the shared handler.
ConcConfigs ==
  { TestConfig,
    [TestConfig EXCEPT !.Encode = FALSE, !.SignatureSize = 8, !.Secret = B("s3")] }

\* The requests that arrive concurrently.
ConcRequests(cfg) ==
  { Request(SignedPath(cfg, RestOptions), NoQuery, AcceptHeader(ReadmeAccept)),
    Request(SignedPath(cfg, RestFiltered), OverrideQuery, NoHeader),
    Request(ForgedPath(cfg, RestOptions), NoQuery, NoHeader),
    Request(B("/"), NoQuery, NoHeader) }

InitConc ==
  /\ config \in ConcConfigs
  /\ metrics = NewMetrics
  /\ pc = "idle"
  /\ req = NoRequest
  /\ parts = <<>>
  /\ finalOpts = <<>>
  /\ newUrl = <<>>
  /\ backendReqs = <<>>
  /\ backendResp = NoResponse
  /\ w = NewResponseWriter
  /\ signCalls = 0
  /\ metrics0 = NewMetrics
  /\ log = <<>>
  /\ call = NoCall
  /\ result = NoResult
  /\ InitProcess

\* The variables of the sequential specifications.
sequentialVars ==
  <<pc, req, parts, finalOpts, newUrl, backendReqs, backendResp, w, signCalls,
    metrics0, log, call, result>>

\* A Once whose flag is never seen set.
OnceNeverDone(once) == FALSE

\* o.done.Load() != 0
OnceDone(once) == once.done

\* Once.Do, the fast path: a set flag ends the call of Do, otherwise the
\* caller goes on to doSlow.
OnceDo(c) ==
  /\ callers[c].pc = "call"
  /\ callers' = [callers EXCEPT ![c].pc = IF OnceDone(metricsOnce) THEN "return"
                                           ELSE "lock"]
  /\ UNCHANGED <<config, metrics, metricsOnce, metricsInstance, registry,
                 goroutines, sequentialVars>>

\* doSlow: the mutex is taken when it is free and the flag is read again;
\* when it is set the mutex is released at once.
OnceLock(c) ==
  /\ callers[c].pc = "lock"
  /\ metricsOnce.m = 0
  /\ IF OnceDone(metricsOnce)
     THEN /\ callers' = [callers EXCEPT ![c].pc = "return"]
          /\ UNCHANGED metricsOnce
     ELSE /\ callers' = [callers EXCEPT ![c].pc = "create"]
          /\ metricsOnce' = [metricsOnce EXCEPT !.m = c]
  /\ UNCHANGED <<config, metrics, metricsInstance, registry, goroutines,
                 sequentialVars>>

\* The function handed to Do: the collectors are created under the namespace
\* of the caller and registered, and metricsInstance is assigned.
CreateInstance(c) ==
  /\ callers[c].pc = "create"
  /\ registry' = Append(registry, callers[c].namespace)
  /\ metricsInstance' = [namespace |-> callers[c].namespace,
                         serial |-> Len(registry) + 1]
  /\ metrics' = NewMetrics
  /\ callers' = [callers EXCEPT ![c].pc = "unlock"]
  /\ UNCHANGED <<config, metricsOnce, goroutines, sequentialVars>>

\* The deferred calls of doSlow: the flag is set and the mutex released.
OnceUnlock(c) ==
  /\ callers[c].pc = "unlock"
  /\ metricsOnce' = [done |-> TRUE, m |-> 0]
  /\ callers' = [callers EXCEPT ![c].pc = "return"]
  /\ UNCHANGED <<config, metrics, metricsInstance, registry, goroutines,
                 sequentialVars>>

\* return metricsInstance
ReturnInstance(c) ==
  /\ callers[c].pc = "return"
  /\ callers' = [callers EXCEPT ![c].pc = "returned", ![c].ret = metricsInstance]
  /\ UNCHANGED <<config, metrics, metricsOnce, metricsInstance, registry,
                 goroutines, sequentialVars>>

\* Locals kept in one place for all calls, as fields of the handler would
\* be: a call reads the options the call with the highest number computed.
FrameOfHandler(frames, g) ==
  LET merged == {k \in DOMAIN frames : frames[k].pc \in {"rebuild", "request", "stream"}}
  IN  IF merged = {} THEN frames[g]
      ELSE [frames[g] EXCEPT !.finalOpts =
              frames[CHOOSE k \in merged : \A j \in merged : j <= k].finalOpts]

\* The locals of call g of HandleImageProxy.
Frame(frames, g) == frames[g]

\* A return of call g with a status: the status is counted and observed,
\* the error counters named are incremented and the deferred
\* RemoveRequestInProgress runs.
Return(g, frame, code, sigError, backendError) ==
  /\ metrics' =
       LET m1 == RecordStatus(metrics, code, frame.req.path)
           m2 == IF sigError # "" THEN IncrementSignatureError(m1, sigError) ELSE m1
           m3 == IF backendError # "" THEN IncrementBackendError(m2, backendError) ELSE m2
       IN  RemoveRequestInProgress(m3, frame.req.path)
  /\ goroutines' = [goroutines EXCEPT ![g] = [frame EXCEPT !.pc = "returned",
                                                           !.status = code]]

\* Lines 86-101 on a handler CreateHandler has returned: the gauge is
\* incremented and the path is split.
ServeReceive(g) ==
  /\ Frame(goroutines, g).pc = "idle"
  /\ \E c \in Callers : callers[c].pc = "returned"
  /\ \E r \in ConcRequests(config) :
       /\ metrics' = AddRequestInProgress(metrics, r.path)
       /\ goroutines' = [goroutines EXCEPT ![g] =
            [NewFrame EXCEPT !.pc = IF Len(Split(r.path, Slash)) < MinParts
                                    THEN "reject" ELSE "verify",
                             !.req = r,
                             !.parts = Split(r.path, Slash)]]
  /\ UNCHANGED <<config, metricsOnce, metricsInstance, registry, callers,
                 sequentialVars>>

\* Lines 102-109
ServeReject(g) ==
  /\ Frame(goroutines, g).pc = "reject"
  /\ Return(g, Frame(goroutines, g), 400, "", "")
  /\ UNCHANGED <<config, metricsOnce, metricsInstance, registry, callers,
                 sequentialVars>>

\* Lines 111-133
ServeVerify(g) ==
  /\ Frame(goroutines, g).pc = "verify"
  /\ LET frame == Frame(goroutines, g)
         expected == Sign(config.Key, config.Salt, VerifiedPath(frame.parts),
                          config.SignatureSize)
     IN  IF expected.err
         THEN Return(g, frame, 500, "invalid_key_salt", "")
         ELSE IF SignatureMismatch(frame.parts[2], expected.sig)
         THEN Return(g, frame, 403, InvalidSignatureLabel, "")
         ELSE /\ goroutines' = [goroutines EXCEPT ![g] = [frame EXCEPT !.pc = "merge"]]
              /\ UNCHANGED metrics
  /\ UNCHANGED <<config, metricsOnce, metricsInstance, registry, callers,
                 sequentialVars>>

\* Lines 135-143
ServeMerge(g) ==
  /\ Frame(goroutines, g).pc = "merge"
  /\ LET frame == Frame(goroutines, g)
         existingOpts == ParsePathOptions(SubSeq(frame.parts, 3, Len(frame.parts)))
         queryOpts == ParseQueryToOptions(frame.req.query)
     IN  \E merged \in MergeOptions(existingOpts, queryOpts) :
           goroutines' = [goroutines EXCEPT ![g] =
             [frame EXCEPT !.pc = "rebuild",
                           !.finalOpts = addFormatFromAcceptHeader(
                                           merged, HeaderGet(frame.req.header, "Accept"))]]
  /\ UNCHANGED <<config, metrics, metricsOnce, metricsInstance, registry, callers,
                 sequentialVars>>

\* Lines 145-170
ServeRebuild(g) ==
  /\ Frame(goroutines, g).pc = "rebuild"
  /\ LET frame == Frame(goroutines, g)
         decoded == UrlSafeDecode(frame.parts[Len(frame.parts)])
         generated == GenerateURL(decoded.bytes, frame.finalOpts, config)
     IN  IF decoded.err
         THEN Return(g, frame, 400, "", "")
         ELSE IF generated.err
         THEN Return(g, frame, 500, "", "")
         ELSE /\ goroutines' = [goroutines EXCEPT ![g] =
                   [frame EXCEPT !.pc = "request", !.newUrl = generated.url]]
              /\ UNCHANGED metrics
  /\ UNCHANGED <<config, metricsOnce, metricsInstance, registry, callers,
                 sequentialVars>>

\* Lines 175-213
ServeRequest(g) ==
  /\ Frame(goroutines, g).pc = "request"
  /\ LET frame == Frame(goroutines, g)
         sent == [frame EXCEPT !.sent = Append(@, BackendRequest(frame.newUrl,
                                                   frame.req.header, config.Secret))]
     IN  IF NewRequestFails(frame.newUrl)
         THEN Return(g, frame, 500, "", "request_creation_error")
         ELSE \/ Return(g, [sent EXCEPT !.resp = [kind |-> "error", StatusCode |-> 0,
                                                  Header |-> NoHeader]],
                        ConnectionErrorStatus, "", ConnectionErrorLabel)
              \/ /\ \E code \in BackendStatuses :
                      goroutines' = [goroutines EXCEPT ![g] =
                        [sent EXCEPT !.pc = "stream",
                                     !.resp = [kind |-> "response", StatusCode |-> code,
                                               Header |-> BackendHeader]]]
                 /\ UNCHANGED metrics
  /\ UNCHANGED <<config, metricsOnce, metricsInstance, registry, callers,
                 sequentialVars>>

\* Lines 215-230
ServeStream(g) ==
  /\ Frame(goroutines, g).pc = "stream"
  /\ LET frame == Frame(goroutines, g)
     IN  \E copyFails \in BOOLEAN :
           Return(g, frame, frame.resp.StatusCode, "",
                  IF copyFails THEN ResponseCopyErrorLabel ELSE "")
  /\ UNCHANGED <<config, metricsOnce, metricsInstance, registry, callers,
                 sequentialVars>>

NextConc ==
  \/ \E c \in Callers : OnceDo(c)
  \/ \E c \in Callers : OnceLock(c)
  \/ \E c \in Callers : CreateInstance(c)
  \/ \E c \in Callers : OnceUnlock(c)
  \/ \E c \in Callers : ReturnInstance(c)
  \/ \E g \in Goroutines : ServeReceive(g)
  \/ \E g \in Goroutines : ServeReject(g)
  \/ \E g \in Goroutines : ServeVerify(g)
  \/ \E g \in Goroutines : ServeMerge(g)
  \/ \E g \in Goroutines : ServeRebuild(g)
  \/ \E g \in Goroutines : ServeRequest(g)
  \/ \E g \in Goroutines : ServeStream(g)

SpecConc == InitConc /\ [][NextConc]_vars

(***************************************************************************)
(* Properties of the process.                                              *)
(***************************************************************************)

\* The calls of NewMetrics that have returned.
Returned == {c \in Callers : callers[c].pc = "returned"}

Running == {g \in Goroutines : goroutines[g].pc \notin {"idle", "returned"}}

\* The paths of the requests that have arrived.
ArrivedPaths == {goroutines[g].req.path : g \in {k \in Goroutines : goroutines[k].pc # "idle"}}

\* C24: whatever the interleaving of the requests, the in-progress gauge of
\* a path is the number of requests of that path that have started and not
\* returned; it is never negative, has no value for other paths, and is 0
\* for every path once all requests have returned.
C24_InProgressGauge ==
  /\ DOMAIN metrics.RequestsInProgress = ArrivedPaths
  /\ \A path \in ArrivedPaths :
       /\ Value(metrics.RequestsInProgress, path) =
            Cardinality({g \in Running : goroutines[g].req.path = path})
       /\ Value(metrics.RequestsInProgress, path) >= 0
       /\ Running = {} => Value(metrics.RequestsInProgress, path) = 0

\* Two requests of one path are in progress at different stages.
C24_Witness ==
  \E g, k \in Running :
    /\ g # k
    /\ goroutines[g].req.path = goroutines[k].req.path
    /\ goroutines[g].pc = "stream"
    /\ goroutines[k].pc = "verify"
    /\ Value(metrics.RequestsInProgress, goroutines[g].req.path) = 2

\* All requests have returned, on different exit paths, and the gauge is 0.
C24_WitnessReturned ==
  /\ \A g \in Goroutines : goroutines[g].pc = "returned"
  /\ \E g, k \in Goroutines : goroutines[g].status = 403 /\ goroutines[k].status = 200
  /\ \A path \in ArrivedPaths : Value(metrics.RequestsInProgress, path) = 0

\* The directives and the target of a backend URL built under cfg, nothing
\* for no URL.
ViewOf(cfg, url) ==
  IF url = <<>> THEN [directives |-> {}, target |-> <<>>]
  ELSE LET segs == Split(SubSeq(url, Len(cfg.BaseURL) + 1, Len(url)), Slash)
           start == IF cfg.Encode THEN Len(segs)
                    ELSE CHOOSE i \in 1..Len(segs) :
                           segs[i] = B("plain") /\ \A j \in 1..(i - 1) : segs[j] # B("plain")
       IN  [directives |-> {segs[i] : i \in 3..(start - 1)},
            target |-> SubSeq(segs, start, Len(segs))]

URLView(url) == ViewOf(config, url)

\* The outcomes of HandleImageProxy for a request handled on its own, given
\* what the backend answers: the status sent and the backend URL built, one
\* outcome for every order of the merged directives.
HandledAlone(cfg, r, resp) ==
  LET ps == Split(r.path, Slash)
      expected == Sign(cfg.Key, cfg.Salt, VerifiedPath(ps), cfg.SignatureSize)
      decoded == UrlSafeDecode(ps[Len(ps)])
      merged == MergeOptions(ParsePathOptions(SubSeq(ps, 3, Len(ps))),
                             ParseQueryToOptions(r.query))
      answer(url) == [status |-> IF resp.kind = "response" THEN resp.StatusCode
                                 ELSE ConnectionErrorStatus,
                      newUrl |-> url]
      failed(code) == {[status |-> code, newUrl |-> <<>>]}
  IN  IF Len(ps) < MinParts THEN failed(400)
      ELSE IF expected.err THEN failed(500)
      ELSE IF SignatureMismatch(ps[2], expected.sig) THEN failed(403)
      ELSE IF decoded.err THEN failed(400)
      ELSE { With(GenerateURL(decoded.bytes,
                              addFormatFromAcceptHeader(m, HeaderGet(r.header, "Accept")),
                              cfg),
                  LAMBDA generated :
                    IF generated.err THEN [status |-> 500, newUrl |-> <<>>]
                    ELSE IF NewRequestFails(generated.url)
                    THEN [status |-> 500, newUrl |-> generated.url]
                    ELSE answer(generated.url)) : m \in merged }

\* The answers client.Do may have given a call, none and an error included.
Answers ==
  {NoResponse, [kind |-> "error", StatusCode |-> 0, Header |-> NoHeader]}
    \cup {[kind |-> "response", StatusCode |-> code, Header |-> BackendHeader] :
            code \in BackendStatuses}

\* HandledAlone for every configuration, request and answer of the process.
AloneOutcomes ==
  UNION { UNION { { [cfg |-> cfg, req |-> r, resp |-> resp,
                     outcomes |-> {[status |-> alone.status,
                                    view |-> ViewOf(cfg, alone.newUrl)] :
                                     alone \in HandledAlone(cfg, r, resp)}] :
                    resp \in Answers } :
                  r \in ConcRequests(cfg) } :
          cfg \in ConcConfigs }

\* What a call has produced so far is what the request produces alone.
Independent(frame) ==
  (frame.newUrl # <<>> \/ frame.pc = "returned") =>
    \E entry \in AloneOutcomes :
      /\ entry.cfg = config /\ entry.req = frame.req /\ entry.resp = frame.resp
      /\ \E alone \in entry.outcomes :
           /\ alone.view = URLView(frame.newUrl)
           /\ frame.pc = "returned" => alone.status = frame.status

\* C26: whatever the interleaving of the requests handled by one handler,
\* the status a request is answered with and the target and the directives
\* of its backend URL are those of the request handled alone, given the
\* answer of the backend; no step of the process modifies the configuration.
C26_RequestsIndependent ==
  /\ [](\A g \in Goroutines : Independent(goroutines[g]))
  /\ [][config' = config]_vars

\* Two different requests are in hand at once, each with its own URL, one
\* answered and one about to be sent.
C26_Witness ==
  \E g, k \in Goroutines :
    /\ goroutines[g].pc = "returned" /\ goroutines[g].status = 200
    /\ goroutines[k].pc = "request"
    /\ goroutines[g].req # goroutines[k].req
    /\ URLView(goroutines[g].newUrl).directives # URLView(goroutines[k].newUrl).directives
    /\ URLView(goroutines[g].newUrl).target = URLView(goroutines[k].newUrl).target

====
